---- MODULE Spec2Model ----
(***************************************************************************)
(* Feed-refresh subsystem of macrofeed: the scheduler's sweeps, the        *)
(* per-feed refresh pipeline, the entry deduplicator, the backoff policy   *)
(* and the subscription bootstrap, as one state machine.                   *)
(*                                                                         *)
(* Granularity.  The program is one Node.js process and better-sqlite3 is  *)
(* synchronous, so a handler runs without interruption from one outbound   *)
(* request to the next: the only points where another handler can run are  *)
(* the awaits on network I/O (parser.parseURL and the favicon HEAD         *)
(* probes).  An `await` on an already settled promise (the per-item await  *)
(* of createEntryFromItem, the sweep's await of a refreshFeed that has     *)
(* returned) only passes through the microtask queue, which is drained     *)
(* before any other I/O callback or timer runs.  Each action below is      *)
(* therefore one such run-to-completion block.                             *)
(*                                                                         *)
(* Time is in minutes (the unit of the backoff rule).  SHA-256 is modelled *)
(* as an injective function of the hashed text: the fingerprint is the     *)
(* text `${feedId}:${url}:${title}` itself.                                *)
(***************************************************************************)
EXTENDS Integers, Sequences, FiniteSets, TLC

\* ---------------------------------------------------------------- bounds
MaxClockSteps == 2
MaxErrorCount == 3
MaxDocLen == 2
MaxFeedRows == 3
TimeStep == 60

\* ------------------------------------------------------ program constants
MaxBackoffMinutes == 1440
DefaultNextFetchMinutes == 60
NoTime == -1
NullStr == "<null>"

Min(a, b) == IF a < b THEN a ELSE b
Max(a, b) == IF a > b THEN a ELSE b
Prefix(q, n) == SubSeq(q, 1, Min(Len(q), n))

\* JavaScript `x || d` on a string / on a number
OrStr(x, d) == IF x = NullStr \/ x = "" THEN d ELSE x
OrNum(x, d) == IF x = 0 THEN d ELSE x
Truthy(s) == s # NullStr /\ s # ""

\* ------------------------------------------------------------- universes
Users == {1, 2}
FeedUrls == {"http://f.example/rss", "http://g.example/rss"}
SiteLinks == {NullStr, "https://a.example", "/blog"}
HttpUrls == FeedUrls \cup {"https://a.example"}
ErrorTexts == {"Status code 404", "Request timed out after 30000ms"}
\* feed_url inputs that are no http(s) URL: new URL() accepts the first with
\* protocol ftp:, throws on the second, and the third is falsy
BadUrls == {"ftp://f.example/rss", "f.example/rss", ""}

\* categories table, id -> user_id: the 'Default' category that
\* UserModel.create inserts with each user, and a second category of user 1
Categories == <<1, 2, 1>>
NoCategory == 0
CategoryIds == {NoCategory, 1, 2, 3, 4}

Item(l, t, s) == [link |-> l, title |-> t, summary |-> s, enclosure |-> NullStr]
ItemHello1 == Item("https://a.example/p1", "Hello", "s1")
ItemHello2 == Item("https://a.example/p1", "Hello", "s2")
ItemOther == Item("https://a.example/p2", "Hello", "s1")
ItemNoLink == Item(NullStr, "Hello", "s1")
\* two items whose urls and titles differ by a fragment that follows a colon
\* at the end of the url of the one and leads the title of the other
ItemColonUrl == Item("https://a.example/p:x", "y", "s1")
ItemColonTitle == Item("https://a.example/p", "x:y", "s1")
\* an item with an <enclosure url=...>
ItemPodcast ==
    [Item("https://a.example/ep1", "Episode", "s1")
        EXCEPT !.enclosure = "https://a.example/ep1.mp3"]
Items == {ItemHello1, ItemHello2, ItemOther, ItemNoLink}
\* an item whose summary the parser delivers as an object, not as a string
Unbindable == "<object>"
ItemBroken == Item("https://a.example/p3", "Hello", Unbindable)

SeqsUpTo(S, n) == UNION {[1..k -> S] : k \in 0..n}

\* The documents an upstream serves: up to MaxDocLen of the items it has
\* published, in publication order.
Published == <<ItemHello1, ItemHello2, ItemOther, ItemNoLink>>
RECURSIVE Selection(_, _, _)
Selection(q, S, i) ==
    IF i > Len(q) THEN <<>>
    ELSE (IF i \in S THEN <<q[i]>> ELSE <<>>) \o Selection(q, S, i + 1)
ItemSeqs ==
    {Selection(Published, S, 1) :
        S \in {T \in SUBSET (1..Len(Published)) : Cardinality(T) <= MaxDocLen}}

\* Long documents: n numbered items with pairwise different links, and the
\* same with every seventh item lacking its link
BigDocLen == 200
NumberedItem(i) == Item("https://a.example/n" \o ToString(i), "Hello", "s1")
LongDoc(n) == [i \in 1..n |-> NumberedItem(i)]
GappyDoc(n) ==
    [i \in 1..n |-> IF i % 7 = 0 THEN Item(NullStr, "Hello", "s1") ELSE NumberedItem(i)]

\* what the upstream server answers with: entity validators, or none
NoValidators == [etag |-> NullStr, lastModified |-> NullStr]
SomeValidators == [etag |-> "W/1", lastModified |-> "Mon, 02 Nov 2026"]

\* ------------------------------------------------------------ EntryModel
generateHashOtherDelimiter(feedId, url, title) ==
    ToString(feedId) \o "|" \o url \o "|" \o title

\* sha256 of `${feedId}:${url}:${title}`: the digest is taken as one-to-one,
\* so the hashed text stands for it
generateHash(feedId, url, title) ==
    ToString(feedId) \o ":" \o url \o ":" \o title

InputHashWithSummary(input) ==
    generateHash(input.feed_id, input.url, input.title) \o ":" \o input.summary

InputHash(input) == generateHash(input.feed_id, input.url, input.title)

EntryExists(es, feedId, hash) ==
    \E e \in es : e.feed_id = feedId /\ e.hash = hash

InsertEntryNoForeignKey(es, nid, fs, row) ==
    IF \E e \in es : e.feed_id = row.feed_id /\ e.hash = row.hash
    THEN [es |-> es, nid |-> nid, res |-> "throw"]
    ELSE [es |-> es \cup {[row EXCEPT !.id = nid]}, nid |-> nid + 1, res |-> "created"]

\* INSERT INTO entries: the foreign key on feeds(id) and UNIQUE(feed_id, hash)
\* make the statement throw; otherwise the row gets the next rowid.
InsertEntry(es, nid, fs, row) ==
    IF \/ row.feed_id \notin DOMAIN fs
       \/ \E e \in es : e.feed_id = row.feed_id /\ e.hash = row.hash
    THEN [es |-> es, nid |-> nid, res |-> "throw"]
    ELSE [es |-> es \cup {[row EXCEPT !.id = nid]}, nid |-> nid + 1, res |-> "created"]

create(es, nid, fs, input) ==
    InsertEntry(es, nid, fs,
        [id |-> 0, user_id |-> input.user_id, feed_id |-> input.feed_id,
         hash |-> InputHash(input), title |-> input.title, url |-> input.url,
         summary |-> input.summary, status |-> "unread", starred |-> FALSE])

createIfNotExistsNoCheck(es, nid, fs, input) == create(es, nid, fs, input)

createIfNotExistsReturnsRow(es, nid, fs, input) ==
    IF EntryExists(es, input.feed_id, InputHash(input))
    THEN [es |-> es, nid |-> nid, res |-> "created"]
    ELSE create(es, nid, fs, input)

createIfNotExistsReplaces(es, nid, fs, input) ==
    create({e \in es : ~(e.feed_id = input.feed_id /\ e.hash = InputHash(input))},
           nid, fs, input)

createIfNotExists(es, nid, fs, input) ==
    IF EntryExists(es, input.feed_id, InputHash(input))
    THEN [es |-> es, nid |-> nid, res |-> "null"]
    ELSE create(es, nid, fs, input)

\* UPDATE entries SET status = ? WHERE id = ? AND user_id = ?
EntryStatuses == {"unread", "read", "removed"}
updateStatus(es, entryId, userId, status) ==
    {IF e.id = entryId /\ e.user_id = userId THEN [e EXCEPT !.status = status] ELSE e :
       e \in es}

\* UPDATE entries SET starred = NOT starred WHERE id = ? AND user_id = ?
toggleStarred(es, entryId, userId) ==
    {IF e.id = entryId /\ e.user_id = userId THEN [e EXCEPT !.starred = ~@] ELSE e :
       e \in es}

\* ------------------------------------------------------------- FeedModel
backoffMinutesNoCap(nextFetchMinutes, errorCount) ==
    nextFetchMinutes * 2 ^ (errorCount - 1)

backoffMinutes(nextFetchMinutes, errorCount) ==
    Min(nextFetchMinutes * 2 ^ (errorCount - 1), MaxBackoffMinutes)

FeedModelCreate(fs, id, userId, url, favicon, t) ==
    [f \in DOMAIN fs \cup {id} |->
        IF f = id
        THEN [id |-> id, user_id |-> userId, feed_url |-> url,
              favicon_url |-> favicon, etag_header |-> NullStr,
              last_modified_header |-> NullStr, last_fetched_at |-> NoTime,
              next_fetch_at |-> t, error_count |-> 0, error_message |-> NullStr]
        ELSE fs[f]]

feedUrlExists(fs, userId, url) ==
    \E f \in DOMAIN fs : fs[f].user_id = userId /\ fs[f].feed_url = url

updateFetchResultKeepsFetchedAt(fs, feedId, success, options, t) ==
    LET nextFetchMinutes == OrNum(options.nextFetchMinutes, DefaultNextFetchMinutes)
    IN  IF feedId \notin DOMAIN fs THEN fs
        ELSE IF success
        THEN [fs EXCEPT ![feedId] =
                [@ EXCEPT !.last_fetched_at = t,
                          !.next_fetch_at = t + nextFetchMinutes,
                          !.etag_header = OrStr(options.etag, NullStr),
                          !.last_modified_header = OrStr(options.lastModified, NullStr),
                          !.error_count = 0,
                          !.error_message = NullStr]]
        ELSE LET errorCount == fs[feedId].error_count + 1
             IN [fs EXCEPT ![feedId] =
                [@ EXCEPT !.next_fetch_at = t + backoffMinutes(nextFetchMinutes, errorCount),
                          !.error_count = errorCount,
                          !.error_message = OrStr(options.errorMessage, NullStr)]]

updateFetchResultKeepsErrors(fs, feedId, success, options, t) ==
    LET nextFetchMinutes == OrNum(options.nextFetchMinutes, DefaultNextFetchMinutes)
    IN  IF feedId \notin DOMAIN fs THEN fs
        ELSE IF success
        THEN [fs EXCEPT ![feedId] =
                [@ EXCEPT !.last_fetched_at = t,
                          !.next_fetch_at = t + nextFetchMinutes,
                          !.etag_header = OrStr(options.etag, NullStr),
                          !.last_modified_header = OrStr(options.lastModified, NullStr)]]
        ELSE LET errorCount == fs[feedId].error_count + 1
             IN [fs EXCEPT ![feedId] =
                [@ EXCEPT !.last_fetched_at = t,
                          !.next_fetch_at = t + backoffMinutes(nextFetchMinutes, errorCount),
                          !.error_count = errorCount,
                          !.error_message = OrStr(options.errorMessage, NullStr)]]

updateFetchResultKeepsNextFetch(fs, feedId, success, options, t) ==
    LET nextFetchMinutes == OrNum(options.nextFetchMinutes, DefaultNextFetchMinutes)
    IN  IF feedId \notin DOMAIN fs THEN fs
        ELSE IF success
        THEN [fs EXCEPT ![feedId] =
                [@ EXCEPT !.last_fetched_at = t,
                          !.etag_header = OrStr(options.etag, NullStr),
                          !.last_modified_header = OrStr(options.lastModified, NullStr),
                          !.error_count = 0,
                          !.error_message = NullStr]]
        ELSE LET errorCount == fs[feedId].error_count + 1
             IN [fs EXCEPT ![feedId] =
                [@ EXCEPT !.last_fetched_at = t,
                          !.next_fetch_at = t + backoffMinutes(nextFetchMinutes, errorCount),
                          !.error_count = errorCount,
                          !.error_message = OrStr(options.errorMessage, NullStr)]]

\* options: [etag, lastModified, errorMessage, nextFetchMinutes]; an UPDATE
\* whose WHERE matches no row changes nothing.
updateFetchResult(fs, feedId, success, options, t) ==
    LET nextFetchMinutes == OrNum(options.nextFetchMinutes, DefaultNextFetchMinutes)
    IN  IF feedId \notin DOMAIN fs THEN fs
        ELSE IF success
        THEN [fs EXCEPT ![feedId] =
                [@ EXCEPT !.last_fetched_at = t,
                          !.next_fetch_at = t + nextFetchMinutes,
                          !.etag_header = OrStr(options.etag, NullStr),
                          !.last_modified_header = OrStr(options.lastModified, NullStr),
                          !.error_count = 0,
                          !.error_message = NullStr]]
        ELSE LET errorCount == fs[feedId].error_count + 1
             IN [fs EXCEPT ![feedId] =
                [@ EXCEPT !.last_fetched_at = t,
                          !.next_fetch_at = t + backoffMinutes(nextFetchMinutes, errorCount),
                          !.error_count = errorCount,
                          !.error_message = OrStr(options.errorMessage, NullStr)]]

FeedModelUpdateFavicon(fs, feedId, userId, favicon) ==
    IF feedId \in DOMAIN fs /\ fs[feedId].user_id = userId
    THEN [fs EXCEPT ![feedId].favicon_url = favicon]
    ELSE fs

\* DELETE FROM feeds ...; ON DELETE CASCADE removes the feed's entries, and
\* with each entry its enclosures
FeedModelDelete(fs, feedId) == [f \in DOMAIN fs \ {feedId} |-> fs[f]]
CascadeEntries(es, feedId) == {e \in es : e.feed_id # feedId}
CascadeEnclosures(ens, es) == {x \in ens : \E e \in es : e.id = x.entry_id}

\* --------------------------------------------------------- CategoryModel
\* SELECT * FROM categories WHERE user_id = ? ORDER BY id LIMIT 1 (0: null)
getDefaultCategory(userId) ==
    IF \E c \in DOMAIN Categories : Categories[c] = userId
    THEN CHOOSE c \in DOMAIN Categories :
            /\ Categories[c] = userId
            /\ \A d \in DOMAIN Categories : Categories[d] = userId => c <= d
    ELSE NoCategory
\* findById(categoryId) gives a row and its user_id is userId
categoryOfUser(categoryId, userId) ==
    categoryId \in DOMAIN Categories /\ Categories[categoryId] = userId

\* ----------------------------------------------------------- FeedService
InitialFetchLimit == 50

initialItemsAll(items) == items

\* parsedFeed.items.slice(0, 50)
initialItems(items) == Prefix(items, InitialFetchLimit)

\* fetchFeed collects If-None-Match / If-Modified-Since in a local `headers`
\* object and then calls parser.parseURL(url) with the url alone: the request
\* that leaves the process carries no conditional header.
fetchFeedRequest(url, options) ==
    [url |-> url, ifNoneMatch |-> NullStr, ifModifiedSince |-> NullStr]

\* EntryModel.addEnclosure: the row INSERT INTO enclosures adds
addEnclosure(entryId, url) == [entry_id |-> entryId, url |-> url]

\* (estimateReadingTime calls content.replace, which a non-string content
\* does not have: the TypeError leaves createEntryFromItem before any INSERT);
\* if (entry && item.enclosure?.url) addEnclosure(entry.id, ...)
createEntryFromItem(es, nid, fs, feed, item) ==
    IF ~Truthy(item.link)
    THEN [es |-> es, nid |-> nid, res |-> "null", ens |-> {}]
    ELSE IF item.summary = Unbindable
    THEN [es |-> es, nid |-> nid, res |-> "throw", ens |-> {}]
    ELSE CHOOSE out \in
            {[es |-> r.es, nid |-> r.nid, res |-> r.res,
              ens |-> IF r.res = "created" /\ Truthy(item.enclosure)
                      THEN {addEnclosure(nid, item.enclosure)} ELSE {}] :
               r \in {createIfNotExists(es, nid, fs,
                         [feed_id |-> feed.id, user_id |-> feed.user_id,
                          title |-> OrStr(item.title, "Untitled"), url |-> item.link,
                          summary |-> item.summary])}} : TRUE

RECURSIVE itemLoopCountsNull(_, _, _, _, _, _, _)
itemLoopCountsNull(es, nid, fs, feed, items, n, warned) ==
    IF items = <<>>
    THEN [es |-> es, nid |-> nid, newEntries |-> n, warned |-> warned, ens |-> {}]
    ELSE IF Len(items) = 1
    THEN CHOOSE out \in
            {[es |-> r.es, nid |-> r.nid,
              newEntries |-> IF r.res # "throw" THEN n + 1 ELSE n,
              warned |-> IF r.res = "throw" THEN warned + 1 ELSE warned,
              ens |-> r.ens] :
               r \in {createEntryFromItem(es, nid, fs, feed, items[1])}} : TRUE
    ELSE CHOOSE out \in UNION
            {{[t EXCEPT !.ens = h.ens \cup @] :
                 t \in {itemLoopCountsNull(h.es, h.nid, fs, feed,
                           SubSeq(items, Len(items) \div 2 + 1, Len(items)),
                           h.newEntries, h.warned)}} :
               h \in {itemLoopCountsNull(es, nid, fs, feed,
                                SubSeq(items, 1, Len(items) \div 2), n, warned)}} : TRUE

RECURSIVE itemLoopAbortsOnThrow(_, _, _, _, _, _, _)
itemLoopAbortsOnThrow(es, nid, fs, feed, items, n, warned) ==
    IF items = <<>>
    THEN [es |-> es, nid |-> nid, newEntries |-> n, warned |-> warned, ens |-> {}]
    ELSE IF Len(items) = 1
    THEN CHOOSE out \in
            {[es |-> r.es, nid |-> r.nid,
              newEntries |-> IF r.res = "created" THEN n + 1 ELSE n,
              warned |-> IF r.res = "throw" THEN warned + 1 ELSE warned,
              ens |-> r.ens] :
               r \in {createEntryFromItem(es, nid, fs, feed, items[1])}} : TRUE
    ELSE CHOOSE out \in UNION
            {IF h.warned > warned THEN {h}
             ELSE {[t EXCEPT !.ens = h.ens \cup @] :
                     t \in {itemLoopAbortsOnThrow(h.es, h.nid, fs, feed,
                               SubSeq(items, Len(items) \div 2 + 1, Len(items)),
                               h.newEntries, h.warned)}} :
               h \in {itemLoopAbortsOnThrow(es, nid, fs, feed,
                                SubSeq(items, 1, Len(items) \div 2), n, warned)}} : TRUE

\* for (const item of items) { try { if (await createEntryFromItem) n++ } catch { warn } }
\* The items are taken in order, each on the tables the one before it left;
\* the loop over a document is the loop over its first half followed by the
\* loop over its second half.  (r and h range over one-element sets: each
\* call is evaluated once.)
RECURSIVE itemLoop(_, _, _, _, _, _, _)
itemLoop(es, nid, fs, feed, items, n, warned) ==
    IF items = <<>>
    THEN [es |-> es, nid |-> nid, newEntries |-> n, warned |-> warned, ens |-> {}]
    ELSE IF Len(items) = 1
    THEN CHOOSE out \in
            {[es |-> r.es, nid |-> r.nid,
              newEntries |-> IF r.res = "created" THEN n + 1 ELSE n,
              warned |-> IF r.res = "throw" THEN warned + 1 ELSE warned,
              ens |-> r.ens] :
               r \in {createEntryFromItem(es, nid, fs, feed, items[1])}} : TRUE
    ELSE CHOOSE out \in UNION
            {{[t EXCEPT !.ens = h.ens \cup @] :
                 t \in {itemLoop(h.es, h.nid, fs, feed,
                           SubSeq(items, Len(items) \div 2 + 1, Len(items)),
                           h.newEntries, h.warned)}} :
               h \in {itemLoop(es, nid, fs, feed,
                                SubSeq(items, 1, Len(items) \div 2), n, warned)}} : TRUE

\* new URL(u) parses and the protocol is http: or https:
isValidUrl(u) == u \in HttpUrls
\* new URL(siteUrl) in fetchFavicon parses (a relative link does not)
ParsesAsUrl(u) == u \in HttpUrls

\* new URL(u).origin and new URL(u).hostname, for the URLs of HttpUrls
Origin(u) ==
    CASE u = "http://f.example/rss" -> "http://f.example"
      [] u = "http://g.example/rss" -> "http://g.example"
      [] u = "https://a.example" -> "https://a.example"
Hostname(u) ==
    CASE u = "http://f.example/rss" -> "f.example"
      [] u = "http://g.example/rss" -> "g.example"
      [] u = "https://a.example" -> "a.example"

\* the two probes of fetchFavicon, in order
FaviconProbe1(siteUrl) == Origin(siteUrl) \o "/favicon.ico"
FaviconProbe2(siteUrl) ==
    "https://www.google.com/s2/favicons?domain=" \o Hostname(siteUrl) \o "&sz=64"

fetchFaviconIfFound(siteUrl, probe, ok) ==
    IF ~ok THEN NullStr
    ELSE IF probe = 1 THEN FaviconProbe1(siteUrl) ELSE FaviconProbe2(siteUrl)

\* what fetchFavicon returns once probe number `probe` was the last one it
\* awaited (the first probe answered OK, or the second probe was answered at
\* all): the probed URL if it answered OK, and after the loop the "fallback",
\* which is the URL of the second probe again
fetchFavicon(siteUrl, probe, ok) ==
    IF probe = 1 THEN FaviconProbe1(siteUrl) ELSE FaviconProbe2(siteUrl)

\* ------------------------------------------------------------- variables
VARIABLES
    config,        \* [feedRefreshIntervalMinutes, feedRefreshBatchSize]
    now,           \* datetime('now'), in minutes
    feeds,         \* feeds table: id -> row
    entries,       \* entries table: set of rows
    enclosures,    \* enclosures table: set of rows [entry_id, url]
    nextFeedId,    \* AUTOINCREMENT of feeds
    nextEntryId,   \* AUTOINCREMENT of entries
    feedRefreshTask, \* scheduler/index.ts: the cron task is scheduled
    sessionCleanupTask, \* scheduler/index.ts: the hourly cron task is scheduled
    db,            \* database/index.ts: the connection is open (db is not null)
    exited,        \* process.exit was called: nothing runs any more
    sessions,      \* user_sessions table: set of rows
    fc,            \* FeedService.fetchFullContent call in flight
    orphans,       \* per task, the cron tasks that are scheduled and that no
                   \* module variable of scheduler/index.ts refers to any more
    rf,            \* refreshFeed invocations in flight, per caller
    sw,            \* refreshDueFeeds executions in flight
    sub,           \* subscribe invocations in flight
    ev,            \* what the step just taken did (fetch outcome acted on,
                   \* value returned by refreshFeed / refreshDueFeeds / subscribe)
    seen,          \* history: per feed, the items of its last successful refresh
    last,          \* history: per feed, the fetch attempt whose outcome was
                   \* recorded last: [ok, at, overtook, late], and `failed`,
                   \* the failed attempts recorded since the last success
    started        \* history: the callers whose fetch is in flight, in the
                   \* order in which their requests went out

vars == <<config, now, feeds, entries, enclosures, nextFeedId, nextEntryId, feedRefreshTask,
          sessionCleanupTask, db, exited, sessions, fc, orphans,
          rf, sw, sub, ev, seen, last, started>>

SweepIds == {1, 2}
\* the requester of a sweep that no request started
NoUser == 0
ManualCaller == 0
Callers == SweepIds \cup {ManualCaller}
SubIds == {1, 2}

IdleCall == [pc |-> "idle"]
IdleSweep == [pc |-> "idle"]
IdleSub == [pc |-> "idle"]
IdleContent == [pc |-> "idle", url |-> NullStr]
NotSeen == <<[link |-> NullStr, title |-> NullStr, summary |-> "never refreshed"]>>

NoRequest == [url |-> NullStr, ifNoneMatch |-> NullStr, ifModifiedSince |-> NullStr]
NoFetch == [on |-> FALSE, caller |-> ManualCaller, feedId |-> 0, ok |-> FALSE,
            existed |-> FALSE, items |-> <<>>, validators |-> NoValidators,
            request |-> NoRequest, error |-> NullStr, newEntries |-> 0,
            warned |-> 0, added |-> 0, again |-> FALSE, lost |-> FALSE,
            prevErrorCount |-> 0, prevDelay |-> 0]
NoReturn == [on |-> FALSE, caller |-> ManualCaller, feedId |-> 0,
             success |-> FALSE, newEntries |-> 0, error |-> NullStr]
NoSweep == [on |-> FALSE, origin |-> "none", selected |-> <<>>,
            refreshed |-> 0, errors |-> 0, log |-> <<>>]
NoSub == [on |-> FALSE, outcome |-> "none", feedId |-> 0, entriesCreated |-> 0,
          stage |-> "none", user |-> 0, url |-> NullStr, category_id |-> NoCategory,
          items |-> <<>>]
NoSelect == [on |-> FALSE, sweep |-> 0, feeds |-> <<>>, origin |-> "none",
             user |-> NoUser]
\* a cron callback ran: which task, whether its body threw, whether the error
\* left the callback, how many sessions the cleanup deleted
NoTimer == [on |-> FALSE, task |-> "none", threw |-> FALSE, escaped |-> FALSE,
            deleted |-> 0]
\* gracefulShutdown ran: its calls in order, each with the tasks that were
\* scheduled and the state of the connection when the call began
NoShutdown == [on |-> FALSE, signal |-> "none", calls |-> <<>>]
NoProbe == [on |-> FALSE, caller |-> ManualCaller, feedId |-> 0, probe |-> 0,
            ok |-> FALSE, url |-> NullStr]
\* FeedService.fetchFullContent returned: the article or null
NoContent == [on |-> FALSE, url |-> NullStr, result |-> "none"]
NoEvent == [fetch |-> NoFetch, ret |-> NoReturn, sweep |-> NoSweep, sub |-> NoSub,
            select |-> NoSelect, favicon |-> NoProbe, timer |-> NoTimer,
            shutdown |-> NoShutdown, content |-> NoContent, subProbe |-> NoProbe]

\* refreshFeed up to its first await: findById, then the request goes out.
\* `feed` is the row as read at the start, with the fields read later on.
refreshFeedStart(fs, nid, feedId) ==
    [pc |-> "fetch",
     feed |-> [id |-> feedId, user_id |-> fs[feedId].user_id,
               favicon_url |-> fs[feedId].favicon_url,
               etag_header |-> fs[feedId].etag_header,
               last_modified_header |-> fs[feedId].last_modified_header],
     request |-> fetchFeedRequest(fs[feedId].feed_url,
                    [etag |-> fs[feedId].etag_header,
                     lastModified |-> fs[feedId].last_modified_header]),
     startEntryId |-> nid, newEntries |-> 0, link |-> NullStr]

\* FeedModel.findFeedsToRefresh: the due feeds by next_fetch_at ascending
\* (NULL first), at most batchSize; the order among equal times is not fixed
\* by the query, so every such order is a possible answer.
IsDue(fs, f, t) == fs[f].next_fetch_at = NoTime \/ fs[f].next_fetch_at <= t
DueSet(fs, t) == {f \in DOMAIN fs : IsDue(fs, f, t)}
IsPermutationOf(q, S) ==
    /\ Len(q) = Cardinality(S)
    /\ {q[i] : i \in 1..Len(q)} = S
SortedByNextFetch(fs, q) ==
    \A i, j \in 1..Len(q) : i < j => fs[q[i]].next_fetch_at <= fs[q[j]].next_fetch_at
findFeedsToRefreshUnordered(fs, t, batchSize) ==
    {Prefix(q, batchSize) :
        q \in {p \in SeqsUpTo(DOMAIN fs, Cardinality(DueSet(fs, t))) :
                 IsPermutationOf(p, DueSet(fs, t))}}

findFeedsToRefresh(fs, t, batchSize) ==
    {Prefix(q, batchSize) :
        q \in {p \in SeqsUpTo(DOMAIN fs, Cardinality(DueSet(fs, t))) :
                 IsPermutationOf(p, DueSet(fs, t)) /\ SortedByNextFetch(fs, p)}}

\* ------------------------------------------------------------------ Init
\* The state after start(): database opened and migrated (empty tables),
\* scheduler started, no request in flight.  FEED_REFRESH_INTERVAL_MINUTES is
\* a positive number of minutes (its default is 60).
BatchSize == 3

InitStored(intervals, batchSizes, stored) ==
    /\ config \in [feedRefreshIntervalMinutes : intervals,
                   feedRefreshBatchSize : batchSizes]
    /\ now = 0
    /\ feeds = <<>>
    /\ entries = {}
    /\ enclosures = {}
    /\ nextFeedId = 1
    /\ nextEntryId = 1
    /\ feedRefreshTask = TRUE
    /\ sessionCleanupTask = TRUE
    /\ db = TRUE
    /\ exited = FALSE
    /\ sessions \in stored
    /\ fc = IdleContent
    /\ orphans = [feedRefresh |-> 0, sessionCleanup |-> 0]
    /\ rf = [c \in Callers |-> IdleCall]
    /\ sw = [s \in SweepIds |-> IdleSweep]
    /\ sub = [b \in SubIds |-> IdleSub]
    /\ ev = NoEvent
    /\ seen = <<>>
    /\ last = <<>>
    /\ started = <<>>

InitWithBatch(intervals, batchSizes) == InitStored(intervals, batchSizes, {{}})

InitWith(intervals) == InitWithBatch(intervals, {BatchSize})

\* --------------------------------------------------------------- history
\* `started` after a step in which the fetches of the callers in `done` were
\* answered and rfNew is the new value of rf: the answered ones leave, a
\* caller whose request went out in this step joins at the end.
RECURSIVE Without(_, _)
Without(q, S) ==
    IF q = <<>> THEN <<>>
    ELSE (IF Head(q) \in S THEN <<>> ELSE <<Head(q)>>) \o Without(Tail(q), S)
StartedAfter(done, rfNew) ==
    LET new == {c \in Callers : /\ rfNew[c].pc = "fetch"
                                /\ (c \in done \/ rf[c].pc # "fetch")}
    IN Without(started, done) \o
       (IF new = {} THEN <<>> ELSE <<CHOOSE c \in new : TRUE>>)
\* the callers whose fetch of the same feed went out before caller c's and
\* has not been answered yet
StartedBefore(c) ==
    {started[i] : i \in {j \in 1..Len(started) :
        /\ \E k \in 1..Len(started) : started[k] = c /\ j < k
        /\ rf[started[j]].feed.id = rf[c].feed.id}}
\* the outcome of caller c's fetch is recorded on the feed row
Recorded(c, ok) ==
    IF rf[c].feed.id \in DOMAIN feeds
    THEN [last EXCEPT ![rf[c].feed.id] =
            [ok |-> ok, at |-> now, overtook |-> StartedBefore(c),
             late |-> c \in @.overtook,
             failed |-> IF ok THEN 0 ELSE @.failed + 1]]
    ELSE last

\* ------------------------------------------------------- refreshDueFeeds
\* The for-loop from feed number i on, up to the next await: a refreshFeed
\* that throws (NotFoundError: the row is gone) is caught and counted, and
\* the loop goes on; it stops at the first feed whose fetch goes out.
RECURSIVE sweepFrom(_, _, _)
sweepFrom(st, fs, i) ==
    IF i > Len(st.feeds)
    THEN [st EXCEPT !.pc = "done", !.i = i]
    ELSE IF st.feeds[i] \notin DOMAIN fs
    THEN sweepFrom([st EXCEPT !.errors = @ + 1,
                              !.log = Append(@, [feedId |-> st.feeds[i], outcome |-> "throw"])],
                   fs, i + 1)
    ELSE [st EXCEPT !.pc = "run", !.i = i]

sweepCountStopsOnError(st, feedId, outcome, success) ==
    IF success
    THEN [st EXCEPT !.refreshed = @ + 1,
                    !.log = Append(@, [feedId |-> feedId, outcome |-> outcome])]
    ELSE [st EXCEPT !.errors = @ + 1, !.i = Len(st.feeds),
                    !.log = Append(@, [feedId |-> feedId, outcome |-> outcome])]

\* if (result.success) refreshed++ else errors++
sweepCount(st, feedId, outcome, success) ==
    IF success
    THEN [st EXCEPT !.refreshed = @ + 1,
                    !.log = Append(@, [feedId |-> feedId, outcome |-> outcome])]
    ELSE [st EXCEPT !.errors = @ + 1,
                    !.log = Append(@, [feedId |-> feedId, outcome |-> outcome])]

SweepSummary(st) ==
    [on |-> TRUE, origin |-> st.origin, selected |-> st.feeds,
     refreshed |-> st.refreshed, errors |-> st.errors, log |-> st.log]

\* Where sweep s stands after sweepFrom: finished (the cron callback logs,
\* the route answers) or awaiting the fetch of feed st.feeds[st.i].
sweepGoesOn(s, st, fs, nid) ==
    IF st.pc = "done"
    THEN [sw |-> [sw EXCEPT ![s] = IdleSweep], rf |-> [rf EXCEPT ![s] = IdleCall],
          sweep |-> SweepSummary(st)]
    ELSE [sw |-> [sw EXCEPT ![s] = st],
          rf |-> [rf EXCEPT ![s] = refreshFeedStart(fs, nid, st.feeds[st.i])],
          sweep |-> NoSweep]

\* refreshDueFeeds from its start to its first await.  `user` is the
\* authenticated requester (req.user.id) when a route started the sweep;
\* refreshDueFeeds takes no argument, the sweep only carries it along.
StartSweepFor(s, origin, user) ==
    /\ sw[s].pc = "idle"
    /\ \E q \in findFeedsToRefresh(feeds, now, config.feedRefreshBatchSize) :
          \E go \in {sweepGoesOn(s,
                      sweepFrom([pc |-> "run", origin |-> origin, user |-> user,
                                 feeds |-> q, i |-> 1,
                                 refreshed |-> 0, errors |-> 0, log |-> <<>>], feeds, 1),
                      feeds, nextEntryId)} :
             /\ sw' = go.sw
             /\ rf' = go.rf
             /\ started' = StartedAfter({}, go.rf)
             /\ ev' = [NoEvent EXCEPT !.sweep = go.sweep,
                                      !.select = [on |-> TRUE, sweep |-> s, feeds |-> q,
                                                  origin |-> origin, user |-> user]]
    /\ UNCHANGED <<enclosures, orphans, fc, config, now, feeds, entries, nextFeedId, nextEntryId,
                   feedRefreshTask, sessionCleanupTask, db, exited,
                   sessions, sub, seen, last>>

StartSweep(s, origin) == StartSweepFor(s, origin, NoUser)

\* scheduler/index.ts: the cron callback of feedRefreshTask
Tick(S) == feedRefreshTask /\ \E s \in S : StartSweep(s, "tick")

\* POST /api/feeds/refresh-all (and triggerFeedRefresh)
RefreshAll(S) == \E s \in S : StartSweep(s, "api")

\* POST /api/feeds/refresh-all, requested by user u (authenticate sets
\* req.user; the handler does not read it)
RefreshAllBy(S, u) == \E s \in S : StartSweepFor(s, "api", u)

\* ------------------------------------------------------------ refreshFeed
\* refreshFeed returns `result` to its caller: the route of POST /:id/refresh,
\* or the loop of refreshDueFeeds, which counts it and goes on.
returnTo(c, fs, nid, outcome, result) ==
    LET ret == [on |-> TRUE, caller |-> c, feedId |-> rf[c].feed.id,
                success |-> result.success, newEntries |-> result.newEntries,
                error |-> result.error]
    IN IF c = ManualCaller
       THEN [rf |-> [rf EXCEPT ![c] = IdleCall], sw |-> sw, ret |-> ret,
             sweep |-> NoSweep]
       ELSE CHOOSE back \in
               {[rf |-> go.rf, sw |-> go.sw, ret |-> ret, sweep |-> go.sweep] :
                  go \in {sweepGoesOn(c, sweepFrom(counted, fs, counted.i + 1), fs, nid) :
                            counted \in {sweepCount(sw[c], rf[c].feed.id, outcome,
                                                    result.success)}}} : TRUE

\* history, read off the state a fetch outcome is about to act on
PrevErrorCount(f) == IF f \in DOMAIN feeds THEN feeds[f].error_count ELSE 0
PrevDelay(f) ==
    IF f \in DOMAIN feeds THEN feeds[f].next_fetch_at - feeds[f].last_fetched_at ELSE 0
\* an item of the answer was stored by another refresh while call c was in flight
LostRace(c, items) ==
    \E i \in 1..Len(items), e \in entries :
        /\ Truthy(items[i].link)
        /\ e.feed_id = rf[c].feed.id
        /\ e.url = items[i].link
        /\ e.title = OrStr(items[i].title, "Untitled")
        /\ e.id >= rf[c].startEntryId

\* POST /api/feeds/:id/refresh: getFeed(feedId, user) or 404, then refreshFeed
ManualRefresh(u, f) ==
    /\ rf[ManualCaller].pc = "idle"
    /\ f \in DOMAIN feeds
    /\ feeds[f].user_id = u
    /\ rf' = [rf EXCEPT ![ManualCaller] = refreshFeedStart(feeds, nextEntryId, f)]
    /\ started' = Append(started, ManualCaller)
    /\ ev' = NoEvent
    /\ UNCHANGED <<enclosures, orphans, fc, config, now, feeds, entries, nextFeedId, nextEntryId,
                   feedRefreshTask, sessionCleanupTask, db, exited,
                   sessions, sw, sub, seen, last>>

\* the fetch of refreshFeed fails: the catch branch
FetchFails(c, msg) ==
    /\ rf[c].pc = "fetch"
    /\ \E feed \in {rf[c].feed} :
       \E fs1 \in {updateFetchResult(feeds, feed.id, FALSE,
                      [etag |-> NullStr, lastModified |-> NullStr, errorMessage |-> msg,
                       nextFetchMinutes |-> config.feedRefreshIntervalMinutes], now)} :
       \E back \in {returnTo(c, fs1, nextEntryId, "fail",
                            [success |-> FALSE, newEntries |-> 0, error |-> msg])} :
          /\ feed.id \in DOMAIN feeds => feeds[feed.id].error_count < MaxErrorCount
          /\ feeds' = fs1
          /\ rf' = back.rf
          /\ sw' = back.sw
          /\ last' = Recorded(c, FALSE)
          /\ started' = StartedAfter({c}, back.rf)
          /\ ev' = [NoEvent EXCEPT
                      !.fetch = [NoFetch EXCEPT !.on = TRUE, !.caller = c,
                                   !.feedId = feed.id,
                                   !.existed = feed.id \in DOMAIN feeds,
                                   !.request = rf[c].request, !.error = msg,
                                   !.prevErrorCount = PrevErrorCount(feed.id),
                                   !.prevDelay = PrevDelay(feed.id)],
                      !.ret = back.ret, !.sweep = back.sweep]
    /\ UNCHANGED <<enclosures, orphans, fc, config, now, entries, nextFeedId, nextEntryId, feedRefreshTask, sessionCleanupTask, db, exited,
                   sessions,
                   sub, seen>>

\* the fetch of refreshFeed answers with a parsed document: item loop,
\* updateFetchResult(success), then the favicon step or the return
FetchSucceeds(c, link, items, validators) ==
    /\ rf[c].pc = "fetch"
    /\ \E feed \in {rf[c].feed} :
       \E loop \in {itemLoop(entries, nextEntryId, feeds, feed, items, 0, 0)},
          fs1 \in {updateFetchResult(feeds, feed.id, TRUE,
                      [etag |-> NullStr, lastModified |-> NullStr, errorMessage |-> NullStr,
                       nextFetchMinutes |-> config.feedRefreshIntervalMinutes], now)},
          favicon \in {~Truthy(feed.favicon_url) /\ Truthy(link) /\ ParsesAsUrl(link)} :
       \E back \in {returnTo(c, fs1, loop.nid, "ok",
                            [success |-> TRUE, newEntries |-> loop.newEntries,
                             error |-> NullStr])} :
          /\ entries' = loop.es
          /\ enclosures' = enclosures \cup loop.ens
          /\ nextEntryId' = loop.nid
          /\ feeds' = fs1
          /\ seen' = IF feed.id \in DOMAIN feeds
                     THEN [seen EXCEPT ![feed.id] = items] ELSE seen
          /\ rf' = IF favicon
                   THEN [rf EXCEPT ![c] = [@ EXCEPT !.pc = "fav1",
                                                    !.newEntries = loop.newEntries,
                                                    !.link = link]]
                   ELSE back.rf
          /\ sw' = IF favicon THEN sw ELSE back.sw
          /\ last' = Recorded(c, TRUE)
          /\ started' = IF favicon THEN Without(started, {c})
                                  ELSE StartedAfter({c}, back.rf)
          /\ ev' = [NoEvent EXCEPT
                      !.fetch = [NoFetch EXCEPT !.on = TRUE, !.caller = c,
                                   !.feedId = feed.id, !.ok = TRUE,
                                   !.existed = feed.id \in DOMAIN feeds,
                                   !.items = items, !.validators = validators,
                                   !.request = rf[c].request,
                                   !.newEntries = loop.newEntries,
                                   !.warned = loop.warned,
                                   !.added = Cardinality(loop.es \ entries),
                                   !.again = /\ feed.id \in DOMAIN seen
                                             /\ seen[feed.id] = items,
                                   !.lost = LostRace(c, items),
                                   !.prevErrorCount = PrevErrorCount(feed.id),
                                   !.prevDelay = PrevDelay(feed.id)],
                      !.ret = IF favicon THEN NoReturn ELSE back.ret,
                      !.sweep = IF favicon THEN NoSweep ELSE back.sweep]
    /\ UNCHANGED <<orphans, fc, config, now, nextFeedId, feedRefreshTask, sessionCleanupTask,
                   db, exited, sessions, sub>>

\* what the step that handles the answer to a favicon probe of caller c saw
Probed(c, ok) ==
    [on |-> TRUE, caller |-> c, feedId |-> rf[c].feed.id,
     probe |-> IF rf[c].pc = "fav1" THEN 1 ELSE 2, ok |-> ok,
     url |-> IF rf[c].pc = "fav1" THEN FaviconProbe1(rf[c].link)
             ELSE FaviconProbe2(rf[c].link)]

FaviconAnswerThrows(c, ok) ==
    /\ rf[c].pc \in {"fav1", "fav2"}
    /\ IF rf[c].pc = "fav1" /\ ~ok
       THEN /\ rf' = [rf EXCEPT ![c].pc = "fav2"]
            /\ ev' = [NoEvent EXCEPT !.favicon = Probed(c, ok)]
            /\ UNCHANGED <<feeds, sw, started, last>>
       ELSE \E url \in {IF rf[c].pc = "fav1" THEN FaviconProbe1(rf[c].link)
                         ELSE FaviconProbe2(rf[c].link)} :
            \E fs1 \in {IF ok
                        THEN FeedModelUpdateFavicon(feeds, rf[c].feed.id,
                                                    rf[c].feed.user_id, url)
                        ELSE updateFetchResult(feeds, rf[c].feed.id, FALSE,
                                [etag |-> NullStr, lastModified |-> NullStr,
                                 errorMessage |-> "fetch failed",
                                 nextFetchMinutes |-> config.feedRefreshIntervalMinutes],
                                now)} :
            \E back \in {returnTo(c, fs1, nextEntryId, IF ok THEN "ok" ELSE "fail",
                                 [success |-> ok,
                                  newEntries |-> IF ok THEN rf[c].newEntries ELSE 0,
                                  error |-> IF ok THEN NullStr ELSE "fetch failed"])} :
               /\ feeds' = fs1
               /\ rf' = back.rf
               /\ sw' = back.sw
               /\ last' = IF ok THEN last ELSE Recorded(c, FALSE)
               /\ started' = StartedAfter({}, back.rf)
               /\ ev' = [NoEvent EXCEPT !.ret = back.ret, !.sweep = back.sweep,
                                        !.favicon = Probed(c, ok)]
    /\ UNCHANGED <<enclosures, orphans, fc, config, now, entries, nextFeedId, nextEntryId, feedRefreshTask, sessionCleanupTask, db, exited,
                   sessions,
                   sub, seen>>

\* a HEAD probe of fetchFavicon answers (ok) or fails / answers not-ok; after
\* the second probe the function returns the second URL either way
FaviconAnswer(c, ok) ==
    /\ rf[c].pc \in {"fav1", "fav2"}
    /\ IF rf[c].pc = "fav1" /\ ~ok
       THEN /\ rf' = [rf EXCEPT ![c].pc = "fav2"]
            /\ ev' = [NoEvent EXCEPT !.favicon = Probed(c, ok)]
            /\ UNCHANGED <<feeds, sw, started>>
       ELSE \E url \in {fetchFavicon(rf[c].link,
                                      IF rf[c].pc = "fav1" THEN 1 ELSE 2, ok)} :
            \E fs1 \in {IF Truthy(url)
                        THEN FeedModelUpdateFavicon(feeds, rf[c].feed.id,
                                                    rf[c].feed.user_id, url)
                        ELSE feeds} :
            \E back \in {returnTo(c, fs1, nextEntryId, "ok",
                                 [success |-> TRUE, newEntries |-> rf[c].newEntries,
                                  error |-> NullStr])} :
               /\ feeds' = fs1
               /\ rf' = back.rf
               /\ sw' = back.sw
               /\ started' = StartedAfter({}, back.rf)
               /\ ev' = [NoEvent EXCEPT !.ret = back.ret, !.sweep = back.sweep,
                                        !.favicon = Probed(c, ok)]
    /\ UNCHANGED <<enclosures, orphans, fc, config, now, entries, nextFeedId, nextEntryId, feedRefreshTask, sessionCleanupTask, db, exited,
                   sessions,
                   sub, seen, last>>

\* -------------------------------------------------------------- subscribe
\* subscribe up to its first await: URL check, already-subscribed check,
\* category check, then the fetch goes out (with no validators)
subscribeChecks(fs, u, url, categoryId) ==
    IF ~Truthy(url) \/ ~isValidUrl(url) THEN "ValidationError"
    ELSE IF feedUrlExists(fs, u, url) THEN "ConflictError"
    ELSE IF categoryId = NoCategory
    THEN (IF getDefaultCategory(u) = NoCategory THEN "ValidationError" ELSE "ok")
    ELSE (IF categoryOfUser(categoryId, u) THEN "ok" ELSE "NotFoundError")

SubscribeWith(b, u, url, categoryId) ==
    /\ sub[b].pc = "idle"
    /\ nextFeedId <= MaxFeedRows
    /\ \E checks \in {subscribeChecks(feeds, u, url, categoryId)} :
          IF checks # "ok"
          THEN /\ ev' = [NoEvent EXCEPT !.sub = [NoSub EXCEPT !.on = TRUE,
                                                   !.outcome = checks,
                                                   !.stage = "checks", !.user = u,
                                                   !.url = url,
                                                   !.category_id = categoryId]]
               /\ UNCHANGED sub
          ELSE /\ sub' = [sub EXCEPT ![b] =
                            [pc |-> "fetch", user |-> u, url |-> url,
                             category_id |-> IF categoryId = NoCategory
                                             THEN getDefaultCategory(u) ELSE categoryId,
                             link |-> NullStr, items |-> <<>>]]
               /\ ev' = NoEvent
    /\ UNCHANGED <<enclosures, orphans, fc, config, now, feeds, entries, nextFeedId, nextEntryId,
                   feedRefreshTask, sessionCleanupTask, db, exited,
                   sessions, rf, started, sw, seen, last>>

\* POST /api/feeds with a feed_url and no category_id
Subscribe(b, u, url) == SubscribeWith(b, u, url, NoCategory)

SubscribeFetchFailsKeepsRow(b, msg) ==
    /\ sub[b].pc = "fetch"
    /\ ~feedUrlExists(feeds, sub[b].user, sub[b].url)
    /\ sub' = [sub EXCEPT ![b] = IdleSub]
    /\ feeds' = FeedModelCreate(feeds, nextFeedId, sub[b].user, sub[b].url, NullStr, now)
    /\ nextFeedId' = nextFeedId + 1
    /\ seen' = [f \in DOMAIN seen \cup {nextFeedId} |->
                  IF f = nextFeedId THEN NotSeen ELSE seen[f]]
    /\ last' = [f \in DOMAIN last \cup {nextFeedId} |->
                  IF f = nextFeedId
                  THEN [ok |-> FALSE, at |-> now, overtook |-> {}, late |-> FALSE,
                        failed |-> 0]
                  ELSE last[f]]
    /\ ev' = [NoEvent EXCEPT !.sub = [NoSub EXCEPT !.on = TRUE,
                                        !.outcome = "ValidationError",
                                        !.stage = "fetch", !.user = sub[b].user,
                                        !.url = sub[b].url,
                                        !.category_id = sub[b].category_id]]
    /\ UNCHANGED <<enclosures, orphans, fc, config, now, entries, nextEntryId, feedRefreshTask, sessionCleanupTask, db, exited,
                   sessions, rf, started, sw>>

\* the initial fetch fails: ValidationError, nothing is created
SubscribeFetchFails(b, msg) ==
    /\ sub[b].pc = "fetch"
    /\ sub' = [sub EXCEPT ![b] = IdleSub]
    /\ ev' = [NoEvent EXCEPT !.sub = [NoSub EXCEPT !.on = TRUE,
                                        !.outcome = "ValidationError",
                                        !.stage = "fetch", !.user = sub[b].user,
                                        !.url = sub[b].url,
                                        !.category_id = sub[b].category_id]]
    /\ UNCHANGED <<enclosures, orphans, fc, config, now, feeds, entries, nextFeedId, nextEntryId,
                   feedRefreshTask, sessionCleanupTask, db, exited,
                   sessions, rf, started, sw, seen, last>>

\* the rest of subscribe once the favicon is settled: FeedModel.create (which
\* throws on UNIQUE(user_id, feed_url)), the backfill loop over the first 50
\* items, updateFetchResult(success)
SubscribeFinish(b, items, favicon, probed) ==
    IF feedUrlExists(feeds, sub[b].user, sub[b].url)
    THEN /\ ev' = [NoEvent EXCEPT !.sub = [NoSub EXCEPT !.on = TRUE,
                                             !.outcome = "SqliteError",
                                             !.stage = "create", !.user = sub[b].user,
                                             !.url = sub[b].url,
                                             !.category_id = sub[b].category_id],
                                !.subProbe = probed]
         /\ UNCHANGED <<feeds, entries, enclosures, nextFeedId, nextEntryId, seen, last>>
    ELSE \E id \in {nextFeedId} :
         \E fs0 \in {FeedModelCreate(feeds, id, sub[b].user, sub[b].url, favicon, now)} :
         \E loop \in {itemLoop(entries, nextEntryId, fs0, fs0[id],
                              initialItems(items), 0, 0)} :
            /\ feeds' = updateFetchResult(fs0, id, TRUE,
                            [etag |-> NullStr, lastModified |-> NullStr,
                             errorMessage |-> NullStr,
                             nextFetchMinutes |-> config.feedRefreshIntervalMinutes], now)
            /\ entries' = loop.es
            /\ enclosures' = enclosures \cup loop.ens
            /\ nextEntryId' = loop.nid
            /\ nextFeedId' = id + 1
            /\ seen' = [f \in DOMAIN seen \cup {id} |->
                          IF f = id THEN NotSeen ELSE seen[f]]
            /\ last' = [f \in DOMAIN last \cup {id} |->
                          IF f = id
                          THEN [ok |-> TRUE, at |-> now, overtook |-> {}, late |-> FALSE,
                                failed |-> 0]
                          ELSE last[f]]
            /\ ev' = [NoEvent EXCEPT !.sub = [on |-> TRUE, outcome |-> "ok",
                                              feedId |-> id,
                                              entriesCreated |-> loop.newEntries,
                                              stage |-> "create", user |-> sub[b].user,
                                              url |-> sub[b].url,
                                              category_id |-> sub[b].category_id,
                                              items |-> items],
                                     !.subProbe = probed]

\* the initial fetch answers: fetchFavicon(parsedFeed.link || input.feed_url)
\* sends its first probe, or gives null at once when the link is no URL
SubscribeFetchSucceeds(b, link, items) ==
    /\ sub[b].pc = "fetch"
    /\ IF ParsesAsUrl(OrStr(link, sub[b].url))
       THEN /\ sub' = [sub EXCEPT ![b] = [@ EXCEPT !.pc = "fav1", !.link = link,
                                                  !.items = items]]
            /\ ev' = NoEvent
            /\ UNCHANGED <<feeds, entries, enclosures, nextFeedId, nextEntryId, seen, last>>
       ELSE /\ SubscribeFinish(b, items, NullStr, NoProbe)
            /\ sub' = [sub EXCEPT ![b] = IdleSub]
    /\ UNCHANGED <<orphans, fc, config, now, feedRefreshTask, sessionCleanupTask, db, exited,
                   sessions, rf, started, sw>>

SubscribeFaviconAnswer(b, ok) ==
    /\ sub[b].pc \in {"fav1", "fav2"}
    /\ IF sub[b].pc = "fav1" /\ ~ok
       THEN /\ sub' = [sub EXCEPT ![b].pc = "fav2"]
            /\ ev' = NoEvent
            /\ UNCHANGED <<feeds, entries, enclosures, nextFeedId, nextEntryId, seen, last>>
       ELSE /\ SubscribeFinish(b, sub[b].items,
                  fetchFavicon(OrStr(sub[b].link, sub[b].url),
                               IF sub[b].pc = "fav1" THEN 1 ELSE 2, ok),
                  [on |-> TRUE, caller |-> b, feedId |-> nextFeedId,
                   probe |-> IF sub[b].pc = "fav1" THEN 1 ELSE 2, ok |-> ok,
                   url |-> IF sub[b].pc = "fav1"
                           THEN FaviconProbe1(OrStr(sub[b].link, sub[b].url))
                           ELSE FaviconProbe2(OrStr(sub[b].link, sub[b].url))])
            /\ sub' = [sub EXCEPT ![b] = IdleSub]
    /\ UNCHANGED <<orphans, fc, config, now, feedRefreshTask, sessionCleanupTask, db, exited,
                   sessions, rf, started, sw>>

\* DELETE /api/feeds/:id: findByIdAndUserId, then FeedModel.delete
DeleteFeed(u, f) ==
    /\ f \in DOMAIN feeds
    /\ feeds[f].user_id = u
    /\ feeds' = FeedModelDelete(feeds, f)
    /\ entries' = CascadeEntries(entries, f)
    /\ enclosures' = CascadeEnclosures(enclosures, CascadeEntries(entries, f))
    /\ seen' = [g \in DOMAIN seen \ {f} |-> seen[g]]
    /\ last' = [g \in DOMAIN last \ {f} |-> last[g]]
    /\ ev' = NoEvent
    /\ UNCHANGED <<orphans, fc, config, now, nextFeedId, nextEntryId, feedRefreshTask,
                   sessionCleanupTask, db, exited, sessions, rf, started, sw, sub>>

\* EntryService.updateStatus, toggleStarred: the reader marks an entry read,
\* unread or removed, or stars / unstars it (NotFoundError for an entry that
\* is not the user's)
UpdateStatus(u, entryId, status) ==
    /\ \E e \in entries : e.id = entryId /\ e.user_id = u
    /\ entries' = updateStatus(entries, entryId, u, status)
    /\ ev' = NoEvent
    /\ UNCHANGED <<enclosures, orphans, fc, config, now, feeds, nextFeedId, nextEntryId,
                   feedRefreshTask, sessionCleanupTask, db, exited,
                   sessions, rf, started, sw, sub, seen, last>>

ToggleStarred(u, entryId) ==
    /\ \E e \in entries : e.id = entryId /\ e.user_id = u
    /\ entries' = toggleStarred(entries, entryId, u)
    /\ ev' = NoEvent
    /\ UNCHANGED <<enclosures, orphans, fc, config, now, feeds, nextFeedId, nextEntryId,
                   feedRefreshTask, sessionCleanupTask, db, exited,
                   sessions, rf, started, sw, sub, seen, last>>

\* time passes
Advance ==
    /\ now + TimeStep <= MaxClockSteps * TimeStep
    /\ now' = now + TimeStep
    /\ ev' = NoEvent
    /\ UNCHANGED <<enclosures, orphans, fc, config, feeds, entries, nextFeedId, nextEntryId, feedRefreshTask, sessionCleanupTask, db, exited,
                   sessions,
                   rf, started, sw, sub, seen, last>>

\* ------------------------------------------------------ fetchFullContent
\* FeedService.fetchFullContent up to its first await: fetch(url) goes out,
\* with a User-Agent header and nothing else (no signal, no timeout).
FullContentStart(url) ==
    /\ fc.pc = "idle"
    /\ fc' = [pc |-> "fetch", url |-> url]
    /\ ev' = NoEvent
    /\ UNCHANGED <<enclosures, orphans, config, now, feeds, entries, nextFeedId, nextEntryId, feedRefreshTask,
                   sessionCleanupTask, db, exited, sessions, rf, started, sw, sub,
                   seen, last>>

\* fetch settles: the response is ok (response.text() is awaited next), or
\* it is not ok / fetch rejects (thrown, caught, null is returned)
FullContentResponse(ok) ==
    /\ fc.pc = "fetch"
    /\ IF ok
       THEN /\ fc' = [fc EXCEPT !.pc = "text"]
            /\ ev' = NoEvent
       ELSE /\ fc' = IdleContent
            /\ ev' = [NoEvent EXCEPT !.content = [on |-> TRUE, url |-> fc.url,
                                                  result |-> "null"]]
    /\ UNCHANGED <<enclosures, orphans, config, now, feeds, entries, nextFeedId, nextEntryId, feedRefreshTask,
                   sessionCleanupTask, db, exited, sessions, rf, started, sw, sub,
                   seen, last>>

\* response.text() settles: the body is read and Readability finds an
\* article, or finds none / the read fails (null is returned)
FullContentBody(readable) ==
    /\ fc.pc = "text"
    /\ fc' = IdleContent
    /\ ev' = [NoEvent EXCEPT !.content = [on |-> TRUE, url |-> fc.url,
                 result |-> IF readable THEN "article" ELSE "null"]]
    /\ UNCHANGED <<enclosures, orphans, config, now, feeds, entries, nextFeedId, nextEntryId, feedRefreshTask,
                   sessionCleanupTask, db, exited, sessions, rf, started, sw, sub,
                   seen, last>>

\* ------------------------------------------------------------- scheduler
\* The session-cleanup callback.  expires_at holds toISOString() text
\* ("2024-05-01T10:00:00.000Z") and is compared, as text, with datetime('now')
\* ("2024-05-01 10:00:00"): the first ten characters are the date, and on
\* equal dates the eleventh character decides, "T" being greater than " ".
\* Times are minutes, minute 0 being a midnight.
MinutesPerDay == 1440
Day(t) == t \div MinutesPerDay
IsoLeqSqlNow(expiresAt, t) == Day(expiresAt) < Day(t)

\* SessionModel.deleteExpired
deleteExpired(ss, t) == {r \in ss : ~IsoLeqSqlNow(r.expires_at, t)}

\* rows of user_sessions written before this start of the server: expired
\* yesterday, expiring in the first hour, expiring tomorrow
StoredSessions ==
    {[id |-> 1, user_id |-> 1, expires_at |-> -1],
     [id |-> 2, user_id |-> 1, expires_at |-> 30],
     [id |-> 3, user_id |-> 2, expires_at |-> MinutesPerDay + 30]}

SessionCleanupUncaught(fails) ==
    /\ sessionCleanupTask
    /\ IF fails
       THEN /\ sessions' = sessions
            /\ exited' = TRUE
            /\ ev' = [NoEvent EXCEPT !.timer = [on |-> TRUE, task |-> "sessionCleanup",
                         threw |-> TRUE, escaped |-> TRUE, deleted |-> 0]]
       ELSE /\ sessions' = deleteExpired(sessions, now)
            /\ exited' = exited
            /\ ev' = [NoEvent EXCEPT !.timer = [on |-> TRUE, task |-> "sessionCleanup",
                         threw |-> FALSE, escaped |-> FALSE,
                         deleted |-> Cardinality(sessions \ deleteExpired(sessions, now))]]
    /\ UNCHANGED <<enclosures, orphans, fc, config, now, feeds, entries, nextFeedId, nextEntryId, feedRefreshTask,
                   sessionCleanupTask, db, rf, started, sw, sub, seen, last>>

\* scheduler/index.ts: the cron callback of sessionCleanupTask.  `fails`: the
\* DELETE statement throws (SqliteError); the catch logs it.
sessionCleanupCallback(fails) ==
    /\ IF fails
       THEN /\ sessions' = sessions
            /\ ev' = [NoEvent EXCEPT !.timer = [on |-> TRUE, task |-> "sessionCleanup",
                         threw |-> TRUE, escaped |-> FALSE, deleted |-> 0]]
       ELSE /\ sessions' = deleteExpired(sessions, now)
            /\ ev' = [NoEvent EXCEPT !.timer = [on |-> TRUE, task |-> "sessionCleanup",
                         threw |-> FALSE, escaped |-> FALSE,
                         deleted |-> Cardinality(sessions \ deleteExpired(sessions, now))]]
    /\ UNCHANGED <<enclosures, orphans, fc, config, now, feeds, entries, nextFeedId, nextEntryId, feedRefreshTask,
                   sessionCleanupTask, db, exited, rf, started, sw, sub, seen, last>>

SessionCleanup(fails) == sessionCleanupTask /\ sessionCleanupCallback(fails)

\* scheduler/index.ts: the cron callback of feedRefreshTask when
\* refreshDueFeeds rejects: findFeedsToRefresh throws (SqliteError) before
\* any feed is touched; the catch logs it.
TickRejects ==
    /\ feedRefreshTask
    /\ ev' = [NoEvent EXCEPT !.timer = [on |-> TRUE, task |-> "feedRefresh",
                 threw |-> TRUE, escaped |-> FALSE, deleted |-> 0]]
    /\ UNCHANGED <<enclosures, orphans, fc, config, now, feeds, entries, nextFeedId, nextEntryId, feedRefreshTask,
                   sessionCleanupTask, db, exited, sessions, rf, started, sw, sub,
                   seen, last>>

\* The module state of scheduler/index.ts and database/index.ts, with the
\* calls made so far.
Scheduled(st) ==
    (IF st.feedRefreshTask THEN {"feedRefresh"} ELSE {}) \cup
    (IF st.sessionCleanupTask THEN {"sessionCleanup"} ELSE {})
Called(st, name) ==
    Append(st.calls, [call |-> name, timers |-> Scheduled(st), db |-> st.db])

\* scheduler/index.ts
stopScheduler(st) ==
    [st EXCEPT !.feedRefreshTask = FALSE, !.sessionCleanupTask = FALSE,
               !.calls = Called(st, "stopScheduler")]

\* database/index.ts
closeDatabase(st) ==
    [st EXCEPT !.db = FALSE, !.calls = Called(st, "closeDatabase")]

processExit(st) ==
    [st EXCEPT !.exited = TRUE, !.calls = Called(st, "process.exit")]

gracefulShutdownClosesFirst(st) == processExit(stopScheduler(closeDatabase(st)))

\* gracefulShutdown: stopScheduler(); closeDatabase(); process.exit(0)
gracefulShutdown(st) == processExit(closeDatabase(stopScheduler(st)))

Signals == {"SIGTERM", "SIGINT"}

\* process.on(signal): the handler runs to its end in one turn of the event
\* loop; what was awaiting a fetch is never resumed.
Shutdown(signal) ==
    /\ ~exited
    /\ \E st \in {gracefulShutdown([feedRefreshTask |-> feedRefreshTask,
                      sessionCleanupTask |-> sessionCleanupTask, db |-> db,
                      exited |-> exited, calls |-> <<>>])} :
          /\ feedRefreshTask' = st.feedRefreshTask
          /\ sessionCleanupTask' = st.sessionCleanupTask
          /\ db' = st.db
          /\ exited' = st.exited
          /\ ev' = [NoEvent EXCEPT !.shutdown = [on |-> TRUE, signal |-> signal,
                                                  calls |-> st.calls]]
    /\ UNCHANGED <<enclosures, orphans, fc, config, now, feeds, entries, nextFeedId, nextEntryId, sessions,
                   rf, started, sw, sub, seen, last>>

\* --------------------------------------------- startScheduler, stopScheduler
MaxRestarts == 2

\* startScheduler: each module variable is assigned a new cron task; the task
\* it referred to before, if any, is not stopped and stays scheduled
startSchedulerOrphans(o, refreshTask, cleanupTask) ==
    [feedRefresh |-> o.feedRefresh + (IF refreshTask THEN 1 ELSE 0),
     sessionCleanup |-> o.sessionCleanup + (IF cleanupTask THEN 1 ELSE 0)]

\* a call of startScheduler
StartScheduler ==
    /\ ~exited
    /\ orphans.feedRefresh < MaxRestarts
    /\ orphans' = startSchedulerOrphans(orphans, feedRefreshTask, sessionCleanupTask)
    /\ feedRefreshTask' = TRUE
    /\ sessionCleanupTask' = TRUE
    /\ ev' = NoEvent
    /\ UNCHANGED <<enclosures, fc, config, now, feeds, entries, nextFeedId, nextEntryId,
                   db, exited,
                   sessions, rf, started, sw, sub, seen, last>>

\* a call of stopScheduler: the tasks the module variables refer to are
\* stopped, the variables are set to null
StopScheduler ==
    /\ ~exited
    /\ \E st \in {stopScheduler([feedRefreshTask |-> feedRefreshTask,
                      sessionCleanupTask |-> sessionCleanupTask, db |-> db,
                      exited |-> exited, calls |-> <<>>])} :
          /\ feedRefreshTask' = st.feedRefreshTask
          /\ sessionCleanupTask' = st.sessionCleanupTask
    /\ ev' = NoEvent
    /\ UNCHANGED <<enclosures, orphans, fc, config, now, feeds, entries, nextFeedId, nextEntryId,
                   db, exited, sessions, rf, started, sw, sub, seen, last>>

\* the cron callback of a feed-refresh task that startScheduler left behind
OrphanTick(S) == orphans.feedRefresh > 0 /\ \E s \in S : StartSweep(s, "tick")
OrphanCleanup(fails) == orphans.sessionCleanup > 0 /\ sessionCleanupCallback(fails)

\* ------------------------------------------------------------------ cron
\* startScheduler: the expression `*/${Math.max(1, Math.min(intervalMinutes,
\* 59))} * * * *`.  Its minute field "*/n" stands for the minutes 0, n, 2n, ...
\* below 60 of every hour; the other fields are "*".
MinutesPerHour == 60
CronMaxStep == 59
DefaultRefreshIntervalMinutes == 60
MaxMinutes == 125

cronExpression(intervalMinutes) ==
    [minuteStep |-> Max(1, Min(intervalMinutes, CronMaxStep))]
CronMatches(expr, t) == (t % MinutesPerHour) % expr.minuteStep = 0

\* cron.schedule(cronExpression, callback): the callback of feedRefreshTask
\* runs in the minutes the expression matches
CronTick(S) ==
    /\ CronMatches(cronExpression(config.feedRefreshIntervalMinutes), now)
    /\ Tick(S)

\* a minute of wall-clock time passes
MinutePasses ==
    /\ now < MaxMinutes
    /\ now' = now + 1
    /\ ev' = NoEvent
    /\ UNCHANGED <<enclosures, orphans, fc, config, feeds, entries, nextFeedId, nextEntryId, feedRefreshTask,
                   sessionCleanupTask, db, exited, sessions, rf, started, sw, sub,
                   seen, last>>

\* ------------------------------------------------------------------ Next
\* Deduplication: one user and one feed URL, refreshed by the sweep and by
\* hand at the same time, every document of ItemSeqs.
InitDedup == InitWith({60})

NextDedup ==
    \/ Tick({1})
    \/ \E f \in 1..MaxFeedRows : ManualRefresh(1, f)
    \/ \E c \in {ManualCaller, 1}, items \in ItemSeqs :
          FetchSucceeds(c, NullStr, items, NoValidators)
    \/ Subscribe(1, 1, "http://f.example/rss")
    \/ \E items \in ItemSeqs : SubscribeFetchSucceeds(1, NullStr, items)
    \/ \E ok \in BOOLEAN : SubscribeFaviconAnswer(1, ok)
    \/ Advance

SpecDedup == InitDedup /\ [][NextDedup]_vars

\* Fetch outcomes: one feed whose fetches fail and succeed in any order, by
\* the sweep and by hand, under a short and a long refresh interval (with the
\* long one the 24-hour cap binds at the third consecutive failure).
ShortDocs == {<<>>, <<ItemHello1>>}

InitBackoff == InitWith({60, 720})

NextBackoff ==
    \/ Tick({1})
    \/ \E f \in 1..MaxFeedRows : ManualRefresh(1, f)
    \/ \E c \in {ManualCaller, 1}, msg \in ErrorTexts : FetchFails(c, msg)
    \/ \E c \in {ManualCaller, 1}, link \in SiteLinks, items \in ShortDocs,
          validators \in {NoValidators, SomeValidators} :
          FetchSucceeds(c, link, items, validators)
    \/ \E c \in {ManualCaller, 1}, ok \in BOOLEAN : FaviconAnswer(c, ok)
    \/ Subscribe(1, 1, "http://f.example/rss")
    \/ \E msg \in ErrorTexts : SubscribeFetchFails(1, msg)
    \/ \E link \in SiteLinks, items \in ShortDocs : SubscribeFetchSucceeds(1, link, items)
    \/ \E ok \in BOOLEAN : SubscribeFaviconAnswer(1, ok)
    \/ Advance

SpecBackoff == InitBackoff /\ [][NextBackoff]_vars

\* Sweeps: up to MaxFeedRows feeds of two users, due together; one sweep at a
\* time, started by the cron tick; fetches fail or succeed; a feed may be
\* deleted at any time, also while a sweep that selected it is awaiting the
\* fetch of another feed.
Subscriptions ==
    {<<1, "http://f.example/rss">>, <<1, "http://g.example/rss">>,
     <<2, "http://f.example/rss">>}

Init == InitWith({60})

Next ==
    \/ Tick({1})
    \/ FetchFails(1, "Status code 404")
    \/ FetchSucceeds(1, NullStr, <<>>, NoValidators)
    \/ \E p \in Subscriptions : Subscribe(1, p[1], p[2])
    \/ SubscribeFetchSucceeds(1, "/blog", <<>>)
    \/ \E u \in Users, f \in 1..MaxFeedRows : DeleteFeed(u, f)
    \/ Advance

Spec == Init /\ [][Next]_vars

\* Overlap: one feed, sweeps started by the cron tick and by POST
\* /refresh-all whenever they come, also while another sweep awaits a fetch.
InitOverlap == InitWith({60})

NextOverlap ==
    \/ Tick(SweepIds)
    \/ RefreshAll(SweepIds)
    \/ \E c \in SweepIds : FetchFails(c, "Status code 404")
    \/ \E c \in SweepIds : FetchSucceeds(c, NullStr, <<>>, NoValidators)
    \/ Subscribe(1, 1, "http://f.example/rss")
    \/ SubscribeFetchSucceeds(1, "/blog", <<>>)
    \/ Advance

SpecOverlap == InitOverlap /\ [][NextOverlap]_vars

\* Subscriptions: two users subscribe, with and without a category of their
\* own or of the other user, to a feed URL or to something that is none; two
\* requests can be under way at once; the initial fetch fails or succeeds.
InitSubscribe == InitWith({60})

NextSubscribe ==
    \/ \E b \in SubIds, u \in Users, url \in {"http://f.example/rss"} \cup BadUrls,
          categoryId \in CategoryIds : SubscribeWith(b, u, url, categoryId)
    \/ \E b \in SubIds, msg \in ErrorTexts : SubscribeFetchFails(b, msg)
    \/ \E b \in SubIds, items \in ShortDocs : SubscribeFetchSucceeds(b, "/blog", items)
    \/ Advance

SpecSubscribe == InitSubscribe /\ [][NextSubscribe]_vars

\* Backfill: one feed whose upstream serves short and long documents, up to
\* BigDocLen items, at subscription and at the refreshes after it.
DocLens == {0, 1, InitialFetchLimit - 1, InitialFetchLimit, InitialFetchLimit + 1,
            BigDocLen}
LongDocs == {LongDoc(n) : n \in DocLens} \cup {GappyDoc(n) : n \in DocLens}

InitBackfill == InitWith({60})

NextBackfill ==
    \/ Tick({1})
    \/ \E items \in LongDocs : FetchSucceeds(1, NullStr, items, NoValidators)
    \/ Subscribe(1, 1, "http://f.example/rss")
    \/ \E items \in LongDocs : SubscribeFetchSucceeds(1, "/blog", items)
    \/ Advance

SpecBackfill == InitBackfill /\ [][NextBackfill]_vars

\* Faulty items: documents in which good items stand before, between and
\* after an item without link and an item whose persistence throws; the
\* feed's fetches also fail, and the feed can be deleted while a refresh of
\* it is in flight.
PublishedFaulty == <<ItemHello1, ItemBroken, ItemNoLink, ItemOther>>
FaultyDocs ==
    {Selection(PublishedFaulty, S, 1) :
        S \in {T \in SUBSET (1..Len(PublishedFaulty)) : Cardinality(T) <= MaxDocLen + 1}}

InitItems == InitWith({60})

NextItems ==
    \/ Tick({1})
    \/ FetchFails(1, "Status code 404")
    \/ \E items \in FaultyDocs : FetchSucceeds(1, NullStr, items, NoValidators)
    \/ Subscribe(1, 1, "http://f.example/rss")
    \/ \E items \in FaultyDocs : SubscribeFetchSucceeds(1, "/blog", items)
    \/ DeleteFeed(1, 1)
    \/ Advance

SpecItems == InitItems /\ [][NextItems]_vars

\* Batches: FEED_REFRESH_BATCH_SIZE smaller than the number of feeds, which
\* are subscribed at different times and fail or succeed, so that more feeds
\* than one batch holds are due with different next_fetch_at; sweeps by the
\* cron tick.
InitBatch == InitWithBatch({60}, {BatchSize - 1})

NextBatch ==
    \/ Tick({1})
    \/ FetchFails(1, "Status code 404")
    \/ FetchSucceeds(1, NullStr, <<>>, NoValidators)
    \/ \E p \in Subscriptions : Subscribe(1, p[1], p[2])
    \/ SubscribeFetchSucceeds(1, "/blog", <<>>)
    \/ Advance

SpecBatch == InitBatch /\ [][NextBatch]_vars

\* Lifecycle: one feed refreshed by the cron sweep, the hourly session
\* cleanup over the sessions left by earlier runs, database errors in either
\* callback, and a shutdown signal at any moment, also while a sweep awaits
\* its fetch.  Nothing runs after process.exit.
InitLifecycle == InitStored({60}, {BatchSize}, SUBSET StoredSessions)

NextLifecycle ==
    \/ ~exited /\ Tick({1})
    \/ ~exited /\ TickRejects
    \/ ~exited /\ \E fails \in BOOLEAN : SessionCleanup(fails)
    \/ ~exited /\ FetchFails(1, "Status code 404")
    \/ ~exited /\ FetchSucceeds(1, NullStr, <<>>, NoValidators)
    \/ ~exited /\ Subscribe(1, 1, "http://f.example/rss")
    \/ ~exited /\ SubscribeFetchSucceeds(1, "/blog", <<>>)
    \/ ~exited /\ Advance
    \/ \E signal \in Signals : Shutdown(signal)

SpecLifecycle == InitLifecycle /\ [][NextLifecycle]_vars

\* Timeouts: one feed refreshed by the cron sweep, its site probed for a
\* favicon, and full-content requests.  parser.parseURL settles within its
\* timeout (30000 ms): the answer or "Request timed out" arrives, which is the
\* fairness stated for the feed fetches of refreshFeed and subscribe.  The
\* fetch() calls of fetchFavicon and fetchFullContent are given no timeout and
\* no signal, so nothing in the code makes them settle: no fairness is stated
\* for their answers.
FetchSettles(c) ==
    \/ FetchFails(c, "Request timed out after 30000ms")
    \/ FetchSucceeds(c, "https://a.example", <<>>, NoValidators)
SubscribeSettles(b) ==
    \/ SubscribeFetchFails(b, "Request timed out after 30000ms")
    \/ SubscribeFetchSucceeds(b, "/blog", <<>>)

InitTimeouts == InitWith({60})

NextTimeouts ==
    \/ Tick({1})
    \/ FetchSettles(1)
    \/ \E ok \in BOOLEAN : FaviconAnswer(1, ok)
    \/ Subscribe(1, 1, "http://f.example/rss")
    \/ SubscribeSettles(1)
    \/ FullContentStart("https://a.example/p1")
    \/ \E ok \in BOOLEAN : FullContentResponse(ok)
    \/ \E readable \in BOOLEAN : FullContentBody(readable)
    \/ Advance

SpecTimeouts ==
    /\ InitTimeouts
    /\ [][NextTimeouts]_vars
    /\ WF_vars(FetchSettles(1))
    /\ WF_vars(SubscribeSettles(1))

\* Cadence: the wall clock advances minute by minute over two hours, the
\* cron callback runs in the minutes its expression matches, for a refresh
\* interval that divides the hour (15), one that does not (45) and the
\* default (60); one feed, whose fetches fail or succeed.
InitCron == InitWith({15, 45, DefaultRefreshIntervalMinutes})

NextCron ==
    \/ CronTick({1})
    \/ MinutePasses
    \/ FetchFails(1, "Status code 404")
    \/ FetchSucceeds(1, NullStr, <<>>, NoValidators)
    \/ Subscribe(1, 1, "http://f.example/rss")
    \/ SubscribeFetchSucceeds(1, "/blog", <<>>)

SpecCron == InitCron /\ [][NextCron]_vars

\* Colons: one feed whose upstream publishes ItemColonUrl, ItemColonTitle
\* and a third item, served in any selection and either order, by the
\* subscription bootstrap and by the sweep's refreshes.
ColonDocs ==
    {Selection(q, S, 1) :
        q \in {<<ItemColonUrl, ItemColonTitle, ItemHello1>>,
               <<ItemColonTitle, ItemColonUrl, ItemHello1>>},
        S \in SUBSET (1..3)}

InitColons == InitWith({60})

NextColons ==
    \/ Tick({1})
    \/ FetchFails(1, "Status code 404")
    \/ \E items \in ColonDocs : FetchSucceeds(1, NullStr, items, NoValidators)
    \/ Subscribe(1, 1, "http://f.example/rss")
    \/ \E items \in ColonDocs : SubscribeFetchSucceeds(1, "/blog", items)
    \/ DeleteFeed(1, 1)
    \/ Advance

SpecColons == InitColons /\ [][NextColons]_vars

\* Refresh-all: feeds of two users, due at any time; either user posts
\* /refresh-all; the fetches of the sweep fail or succeed.
InitRefreshAll == InitWith({60})

NextRefreshAll ==
    \/ \E u \in Users : RefreshAllBy({1}, u)
    \/ FetchFails(1, "Status code 404")
    \/ FetchSucceeds(1, NullStr, <<ItemHello1>>, NoValidators)
    \/ \E p \in Subscriptions : Subscribe(1, p[1], p[2])
    \/ SubscribeFetchSucceeds(1, "/blog", <<>>)
    \/ Advance

SpecRefreshAll == InitRefreshAll /\ [][NextRefreshAll]_vars

\* Scheduler: startScheduler and stopScheduler are called in any order, up
\* to MaxRestarts further starts after the one of start(); the cron
\* callbacks of every scheduled task run; one feed, whose fetches succeed.
InitScheduler == InitWith({60})

NextScheduler ==
    \/ StartScheduler
    \/ StopScheduler
    \/ Tick({1})
    \/ OrphanTick({1})
    \/ \E fails \in BOOLEAN : OrphanCleanup(fails)
    \/ \E fails \in BOOLEAN : SessionCleanup(fails)
    \/ FetchSucceeds(1, NullStr, <<>>, NoValidators)
    \/ Subscribe(1, 1, "http://f.example/rss")
    \/ SubscribeFetchSucceeds(1, "/blog", <<>>)
    \/ Advance

SpecScheduler == InitScheduler /\ [][NextScheduler]_vars

\* Unsubscribe during a refresh: feeds whose items carry enclosures are
\* refreshed by the sweep, and deleted at any moment, also while a refresh
\* awaits its fetch or a favicon probe.
PodcastDocs == {<<ItemPodcast>>, <<ItemHello1, ItemPodcast>>}

InitUnsubscribe == InitWith({60})

NextUnsubscribe ==
    \/ Tick({1})
    \/ FetchFails(1, "Status code 404")
    \/ \E items \in PodcastDocs :
          FetchSucceeds(1, "https://a.example", items, NoValidators)
    \/ \E ok \in BOOLEAN : FaviconAnswer(1, ok)
    \/ Subscribe(1, 1, "http://f.example/rss")
    \/ \E items \in PodcastDocs : SubscribeFetchSucceeds(1, "/blog", items)
    \/ \E f \in 1..MaxFeedRows : DeleteFeed(1, f)
    \/ Advance

SpecUnsubscribe == InitUnsubscribe /\ [][NextUnsubscribe]_vars

\* Reading while feeds refresh: the reader changes the status and the star
\* of stored entries, and refreshes deliver the same items again, new items,
\* or fail.
ReaderDocs == {<<ItemHello1>>, <<ItemHello1, ItemOther>>}

InitReader == InitWith({60})

NextReader ==
    \/ Tick({1})
    \/ ManualRefresh(1, 1)
    \/ \E c \in {ManualCaller, 1} : FetchFails(c, "Status code 404")
    \/ \E c \in {ManualCaller, 1}, items \in ReaderDocs :
          FetchSucceeds(c, NullStr, items, NoValidators)
    \/ Subscribe(1, 1, "http://f.example/rss")
    \/ SubscribeFetchSucceeds(1, "/blog", <<ItemHello1>>)
    \/ \E e \in entries, status \in EntryStatuses : UpdateStatus(1, e.id, status)
    \/ \E e \in entries : ToggleStarred(1, e.id)
    \/ Advance

SpecReader == InitReader /\ [][NextReader]_vars

\* Refresh intervals around the cap of the backoff: FEED_REFRESH_INTERVAL_MINUTES
\* is read with parseInt and no upper limit, so an interval of one day and of
\* two days can be configured as well as the default; feeds are refreshed by
\* hand (a feed fetched under a long interval is not due again soon) and by
\* the sweep.
InitIntervals == InitWith({DefaultRefreshIntervalMinutes, MinutesPerDay, 2 * MinutesPerDay})

NextIntervals ==
    \/ Tick({1})
    \/ ManualRefresh(1, 1)
    \/ \E c \in {ManualCaller, 1} : FetchFails(c, "Status code 404")
    \/ \E c \in {ManualCaller, 1} : FetchSucceeds(c, NullStr, <<>>, NoValidators)
    \/ Subscribe(1, 1, "http://f.example/rss")
    \/ SubscribeFetchSucceeds(1, "/blog", <<>>)
    \/ Advance

SpecIntervals == InitIntervals /\ [][NextIntervals]_vars

\* Sweeps under the schedule: the feeds of one user, a batch of one feed per
\* sweep, so that more feeds are due than a sweep takes, and fetches that
\* fail or succeed.  Two assumptions are stated as fairness: node-cron keeps
\* calling the feedRefreshTask callback while the task is scheduled, and
\* parser.parseURL settles within its timeout with an answer or an error.
SweepFetchSettles ==
    \/ FetchFails(1, "Status code 404")
    \/ FetchSucceeds(1, NullStr, <<>>, NoValidators)

InitStarve == InitWithBatch({60}, {1})

NextStarve ==
    \/ Tick({1})
    \/ SweepFetchSettles
    \/ \E url \in FeedUrls : Subscribe(1, 1, url)
    \/ SubscribeFetchSucceeds(1, "/blog", <<>>)
    \/ Advance

SpecStarve ==
    /\ InitStarve
    /\ [][NextStarve]_vars
    /\ WF_vars(Tick({1}))
    /\ WF_vars(SweepFetchSettles)

\* ================================================================ claims
\* the spec's fingerprint of a stored row: the hash over feed identity, item
\* URL and item title
Fingerprint(e) == generateHash(e.feed_id, e.url, e.title)
RowsOf(f, url, title) ==
    {e \in entries : e.feed_id = f /\ e.url = url /\ e.title = title}
EffectiveTitle(item) == OrStr(item.title, "Untitled")
EntryInput(f, item) ==
    [feed_id |-> f, user_id |-> feeds[f].user_id, title |-> EffectiveTitle(item),
     url |-> item.link, summary |-> item.summary]

\* C1: in every reachable state no two stored entries have the same
\* (feed_id, fingerprint) pair, neither by the stored hash column nor by the
\* fingerprint of their (feed, url, title).
C1_UniqueFingerprint ==
    \A e1, e2 \in entries :
        (/\ e1.feed_id = e2.feed_id
         /\ (e1.hash = e2.hash \/ Fingerprint(e1) = Fingerprint(e2)))
        => e1 = e2

\* C1 witness: a refresh met an item that was already stored, and the feed
\* holds one row for it next to another row
C1_Witness ==
    /\ ev.fetch.on /\ ev.fetch.ok /\ ev.fetch.existed
    /\ ev.fetch.items = <<ItemHello2, ItemOther>>
    /\ ev.fetch.newEntries = 1
    /\ Cardinality({e \in entries : e.feed_id = ev.fetch.feedId}) = 2

\* C2: a refreshFeed whose fetch returns the document that the feed's
\* previous successful refresh processed reports newEntries = 0 and stores
\* no entry (documents with link-less items and with repeated items included).
C2_IdempotentRefresh ==
    (ev.fetch.on /\ ev.fetch.ok /\ ev.fetch.again)
    => /\ ev.fetch.newEntries = 0
       /\ ev.fetch.added = 0
       /\ ev.ret.on => (ev.ret.success /\ ev.ret.newEntries = 0)

\* C2 witness: the second run over a document with two items of the same url
\* and title has returned
C2_Witness ==
    /\ ev.fetch.on /\ ev.fetch.ok /\ ev.fetch.again
    /\ ev.fetch.items = <<ItemHello1, ItemHello2>>
    /\ ev.ret.on /\ ev.ret.newEntries = 0
    /\ Cardinality(RowsOf(ev.fetch.feedId, ItemHello1.link, ItemHello1.title)) = 1

\* C3: items with the same feedId, url and title get the same fingerprint
\* whatever their summary; createIfNotExists for an item whose (feed, url,
\* title) is stored returns null and inserts nothing; so a feed never holds
\* two rows for one (url, title).
C3_DedupKeyStability ==
    /\ \A f \in DOMAIN feeds, i1, i2 \in Items :
          (Truthy(i1.link) /\ i1.link = i2.link /\ i1.title = i2.title)
          => InputHash(EntryInput(f, i1)) = InputHash(EntryInput(f, i2))
    /\ \A f \in DOMAIN feeds, item \in Items :
          (Truthy(item.link) /\ RowsOf(f, item.link, EffectiveTitle(item)) # {})
          => LET r == createIfNotExists(entries, nextEntryId, feeds, EntryInput(f, item))
             IN r.res = "null" /\ r.es = entries /\ r.nid = nextEntryId
    /\ \A f \in DOMAIN feeds, item \in Items :
          Cardinality(RowsOf(f, item.link, EffectiveTitle(item))) <= 1

\* C3 witness: a sweep met the item again, with another summary than the
\* stored one, and stored nothing
C3_Witness ==
    /\ ev.fetch.on /\ ev.fetch.ok /\ ev.fetch.caller \in SweepIds
    /\ ev.fetch.items = <<ItemHello2>>
    /\ ev.fetch.newEntries = 0
    /\ \E e \in entries : /\ e.feed_id = ev.fetch.feedId
                          /\ e.url = ItemHello2.link /\ e.summary = "s1"
    /\ Cardinality(RowsOf(ev.fetch.feedId, ItemHello2.link, ItemHello2.title)) = 1

\* the feed row a fetch outcome was recorded on, and the delay it was given
FetchedFeed == feeds[ev.fetch.feedId]
FetchFailed == ev.fetch.on /\ ~ev.fetch.ok
FetchSucceeded == ev.fetch.on /\ ev.fetch.ok

\* C4: after a failed fetch that brings error_count to n >= 1, next_fetch_at
\* lies min(interval * 2^(n-1), 1440) minutes after now; the delay is at most
\* 1440 and not smaller than the delay of the failure before it; with interval
\* 60 the third consecutive failure gives error_count 3 and now + 240.
C4_BackoffDelay ==
    (FetchFailed /\ ev.fetch.existed)
    => LET n == FetchedFeed.error_count
           base == config.feedRefreshIntervalMinutes
           delay == FetchedFeed.next_fetch_at - now
       IN /\ n >= 1
          /\ delay = Min(base * 2 ^ (n - 1), 1440)
          /\ delay <= 1440
          /\ ev.fetch.prevErrorCount >= 1 => delay >= ev.fetch.prevDelay
          /\ (base = 60 /\ ev.fetch.prevErrorCount = 2)
             => (n = 3 /\ FetchedFeed.next_fetch_at = now + 240)

\* C4 witness: the third consecutive failure under the interval of 60
C4_Witness ==
    /\ FetchFailed /\ ev.fetch.existed
    /\ config.feedRefreshIntervalMinutes = 60
    /\ ev.fetch.prevErrorCount = 2 /\ ev.fetch.prevDelay = 120
    /\ FetchedFeed.error_count = 3
    /\ FetchedFeed.next_fetch_at = now + 240

\* C5: a refreshFeed whose fetch fails adds exactly 1 to the feed's
\* error_count, sets error_message to the failure text and last_fetched_at to
\* now, stores no entry, and returns success = false, newEntries = 0 and the
\* failure text.
C5_FailurePath ==
    FetchFailed
    => /\ ev.fetch.existed
          => /\ FetchedFeed.error_count = ev.fetch.prevErrorCount + 1
             /\ FetchedFeed.error_message = ev.fetch.error
             /\ FetchedFeed.last_fetched_at = now
       /\ ev.fetch.added = 0
       /\ ev.ret.on /\ ev.ret.feedId = ev.fetch.feedId
       /\ ~ev.ret.success /\ ev.ret.newEntries = 0
       /\ ev.ret.error = ev.fetch.error /\ Truthy(ev.ret.error)

\* C5 witness: a failure of a feed that holds entries and was fetched before
\* at another time
C5_Witness ==
    /\ FetchFailed /\ ev.fetch.existed
    /\ ev.fetch.error = "Status code 404"
    /\ now = 60
    /\ FetchedFeed.error_count = 2
    /\ FetchedFeed.error_message = "Status code 404"
    /\ \E e \in entries : e.feed_id = ev.fetch.feedId
    /\ ev.ret.on /\ ~ev.ret.success

\* C6: when the success path of refreshFeed records its result, and when a
\* subscribe has succeeded, the feed has error_count = 0, no error_message,
\* last_fetched_at = now and next_fetch_at = now + the configured interval,
\* whatever error_count and error_message it had before.
C6_SuccessResets ==
    /\ (FetchSucceeded /\ ev.fetch.existed)
       => /\ FetchedFeed.error_count = 0
          /\ FetchedFeed.error_message = NullStr
          /\ FetchedFeed.last_fetched_at = now
          /\ FetchedFeed.next_fetch_at = now + config.feedRefreshIntervalMinutes
          /\ ev.ret.on => ev.ret.success
    /\ (ev.sub.on /\ ev.sub.outcome = "ok")
       => /\ ev.sub.feedId \in DOMAIN feeds
          /\ feeds[ev.sub.feedId].error_count = 0
          /\ feeds[ev.sub.feedId].error_message = NullStr
          /\ feeds[ev.sub.feedId].last_fetched_at = now
          /\ feeds[ev.sub.feedId].next_fetch_at = now + config.feedRefreshIntervalMinutes

\* C6 witness: a success after two consecutive failures, long interval
C6_Witness ==
    /\ FetchSucceeded /\ ev.fetch.existed
    /\ ev.fetch.prevErrorCount = 2
    /\ config.feedRefreshIntervalMinutes = 720
    /\ now = 60
    /\ FetchedFeed.next_fetch_at = 780
    /\ ev.ret.on /\ ev.ret.success

\* C7: a successful refresh stores the response's validators (ETag,
\* Last-Modified) on the feed, and a fetch of a feed that has stored
\* validators sends them as If-None-Match / If-Modified-Since.
C7_ConditionalFetchCaching ==
    /\ (FetchSucceeded /\ ev.fetch.existed)
       => /\ FetchedFeed.etag_header = ev.fetch.validators.etag
          /\ FetchedFeed.last_modified_header = ev.fetch.validators.lastModified
    /\ \A c \in Callers :
          rf[c].pc = "fetch"
          => /\ Truthy(rf[c].feed.etag_header)
                => rf[c].request.ifNoneMatch = rf[c].feed.etag_header
             /\ Truthy(rf[c].feed.last_modified_header)
                => rf[c].request.ifModifiedSince = rf[c].feed.last_modified_header

\* what a finished sweep did, feed by feed
SweepOutcomes(kinds) ==
    Cardinality({i \in 1..Len(ev.sweep.log) : ev.sweep.log[i].outcome \in kinds})

\* C8: a finished sweep has attempted every feed it selected, in order;
\* refreshed counts the feeds whose refresh succeeded and errors those whose
\* fetch failed or whose refreshFeed threw; so with exactly one failing feed
\* among N it returns errors = 1 and refreshed = N - 1.  The failed fetch of
\* a sweep adds exactly 1 to the feed's error_count.
C8_BatchIsolation ==
    /\ ev.sweep.on
       => /\ Len(ev.sweep.selected) <= config.feedRefreshBatchSize
          /\ Len(ev.sweep.log) = Len(ev.sweep.selected)
          /\ \A i \in 1..Len(ev.sweep.log) :
                ev.sweep.log[i].feedId = ev.sweep.selected[i]
          /\ ev.sweep.refreshed = SweepOutcomes({"ok"})
          /\ ev.sweep.errors = SweepOutcomes({"fail", "throw"})
          /\ SweepOutcomes({"fail", "throw"}) = 1
             => /\ ev.sweep.errors = 1
                /\ ev.sweep.refreshed = Len(ev.sweep.selected) - 1
    /\ (FetchFailed /\ ev.fetch.existed /\ ev.fetch.caller \in SweepIds)
       => FetchedFeed.error_count = ev.fetch.prevErrorCount + 1

\* C8 witness: a sweep over three feeds whose second feed failed and whose
\* third feed was refreshed after it
C8_Witness ==
    /\ ev.sweep.on
    /\ Len(ev.sweep.selected) = 3
    /\ ev.sweep.log[1].outcome = "ok"
    /\ ev.sweep.log[2].outcome = "fail"
    /\ ev.sweep.log[3].outcome = "ok"
    /\ ev.sweep.errors = 1 /\ ev.sweep.refreshed = 2
    /\ ev.sweep.selected[2] \in DOMAIN feeds
    /\ feeds[ev.sweep.selected[2]].error_count = 1
    /\ FetchSucceeded /\ ev.fetch.feedId = ev.sweep.selected[3]

\* C9: at no time are two executions of refreshDueFeeds in progress.
C9_SweepsNeverOverlap ==
    Cardinality({s \in SweepIds : sw[s].pc = "run"}) <= 1

\* C10: a refresh that finds an item of its document stored by another
\* refresh of the same feed which ran while it was in flight treats the item
\* as already existing: nothing is thrown in the item loop, every other
\* linked item of the document is stored, one row per item results, and the
\* refresh ends on the success path.
C10_RacingInsertIsSilent ==
    (ev.fetch.on /\ ev.fetch.ok /\ ev.fetch.lost)
    => /\ ev.fetch.warned = 0
       /\ ev.fetch.newEntries = ev.fetch.added
       /\ \A i \in 1..Len(ev.fetch.items) :
             Truthy(ev.fetch.items[i].link)
             => Cardinality(RowsOf(ev.fetch.feedId, ev.fetch.items[i].link,
                                   EffectiveTitle(ev.fetch.items[i]))) = 1
       /\ feeds[ev.fetch.feedId].error_count = 0
       /\ feeds[ev.fetch.feedId].last_fetched_at = now
       /\ ev.ret.on => ev.ret.success

\* C10 witness: the losing refresh went on to store the item after the one
\* it lost
C10_Witness ==
    /\ ev.fetch.on /\ ev.fetch.ok /\ ev.fetch.lost
    /\ ev.fetch.items = <<ItemHello1, ItemOther>>
    /\ ev.fetch.newEntries = 1
    /\ ev.ret.on /\ ev.ret.success

\* the fetches in flight on feed f
FetchesInFlight(f) == {c \in Callers : rf[c].pc = "fetch" /\ rf[c].feed.id = f}

\* C11: whenever no fetch of a feed is in flight, its non-null next_fetch_at
\* is what the backoff rule gives for the fetch attempt whose outcome was
\* recorded last: the time of that outcome plus the configured interval when
\* it succeeded (and then error_count = 0), plus
\* min(interval * 2^(error_count - 1), 1440) when it failed (and then
\* error_count >= 1); also when that attempt had started before another
\* attempt on the feed and was answered after it.
C11_NextFetchReflectsLastAttempt ==
    \A f \in DOMAIN feeds :
        (FetchesInFlight(f) = {} /\ feeds[f].next_fetch_at # NoTime)
        => /\ f \in DOMAIN last
           /\ last[f].ok <=> feeds[f].error_count = 0
           /\ feeds[f].next_fetch_at =
                 last[f].at +
                 (IF last[f].ok
                  THEN config.feedRefreshIntervalMinutes
                  ELSE Min(config.feedRefreshIntervalMinutes *
                               2 ^ (feeds[f].error_count - 1), 1440))

\* C11 witness: a sweep and a manual refresh of the same feed were in flight
\* together; the one that started later failed first, the one that started
\* first succeeded after it, at a later time, and nothing is in flight now
C11_Witness ==
    /\ FetchSucceeded /\ ev.fetch.existed
    /\ ev.fetch.prevErrorCount = 1
    /\ FetchesInFlight(ev.fetch.feedId) = {}
    /\ last[ev.fetch.feedId].late
    /\ last[ev.fetch.feedId].at = 60
    /\ FetchedFeed.next_fetch_at = 120

\* next_fetch_at IS NULL OR next_fetch_at <= datetime('now'), on the rows as
\* they are in the state a sweep has just selected from
DueNow(f) ==
    f \in DOMAIN feeds /\ (feeds[f].next_fetch_at = NoTime \/ feeds[f].next_fetch_at <= now)

\* C12: the feeds a sweep selects are all due (next_fetch_at null or <= now)
\* at selection time, pairwise different, at most batchSize, and as many as
\* are due up to batchSize; they come earliest next_fetch_at first, and no
\* due feed left out has an earlier next_fetch_at than a selected one; every
\* fetch a sweep sends is for a feed of its selection, so a feed that is not
\* due at selection time is not refreshed by that sweep.
C12_SweepSelectsOldestDue ==
    /\ ev.select.on
       => LET q == ev.select.feeds
              due == {f \in DOMAIN feeds : DueNow(f)}
          IN /\ \A i \in 1..Len(q) : DueNow(q[i])
             /\ \A i, j \in 1..Len(q) : i # j => q[i] # q[j]
             /\ Len(q) <= config.feedRefreshBatchSize
             /\ Len(q) = Min(Cardinality(due), config.feedRefreshBatchSize)
             /\ \A i, j \in 1..Len(q) :
                   i < j => feeds[q[i]].next_fetch_at <= feeds[q[j]].next_fetch_at
             /\ \A f \in due, i \in 1..Len(q) :
                   f \notin {q[k] : k \in 1..Len(q)}
                   => feeds[q[i]].next_fetch_at <= feeds[f].next_fetch_at
    /\ \A s \in SweepIds :
          (sw[s].pc = "run" /\ rf[s].pc # "idle")
          => \E i \in 1..Len(sw[s].feeds) : sw[s].feeds[i] = rf[s].feed.id

\* C12 witness: three feeds are due, one of them for longer than the others;
\* the sweep takes a batch of two, the longest-due feed first, and leaves a
\* due feed for a later sweep
C12_Witness ==
    /\ ev.select.on
    /\ Cardinality({f \in DOMAIN feeds : DueNow(f)}) = 3
    /\ Len(ev.select.feeds) = 2
    /\ config.feedRefreshBatchSize = 2
    /\ feeds[ev.select.feeds[1]].next_fetch_at < feeds[ev.select.feeds[2]].next_fetch_at
    /\ \E f \in DOMAIN feeds : feeds[f].next_fetch_at > now - TimeStep

\* what a subscribe request asks for, against the tables as they are
WellFormedHttp(url) == url \in {"http://f.example/rss", "http://g.example/rss"}
AlreadySubscribed(u, url) ==
    \E f \in DOMAIN feeds : feeds[f].user_id = u /\ feeds[f].feed_url = url
ForeignCategory(u, categoryId) ==
    /\ categoryId # NoCategory
    /\ ~\E c \in DOMAIN Categories : c = categoryId /\ Categories[c] = u

\* C13: a subscribe that ends with an error has created no feed row and no
\* entry.  It ends with ValidationError when the URL is not well-formed
\* http(s), else with ConflictError when the user has a feed with this URL,
\* else with NotFoundError when the given category is not one of the user's,
\* and with ValidationError when the initial fetch fails; a subscribe whose
\* input fails one of the three checks sends no fetch.
C13_FailedSubscribeLeavesNothing ==
    [][/\ (ev'.sub.on /\ ev'.sub.outcome # "ok")
          => /\ feeds' = feeds
             /\ entries' = entries
             /\ nextFeedId' = nextFeedId /\ nextEntryId' = nextEntryId
             /\ ev'.sub.stage = "checks"
                => /\ ~WellFormedHttp(ev'.sub.url)
                      => ev'.sub.outcome = "ValidationError"
                   /\ (WellFormedHttp(ev'.sub.url)
                       /\ AlreadySubscribed(ev'.sub.user, ev'.sub.url))
                      => ev'.sub.outcome = "ConflictError"
                   /\ (WellFormedHttp(ev'.sub.url)
                       /\ ~AlreadySubscribed(ev'.sub.user, ev'.sub.url))
                      => /\ ForeignCategory(ev'.sub.user, ev'.sub.category_id)
                         /\ ev'.sub.outcome = "NotFoundError"
             /\ ev'.sub.stage = "fetch" => ev'.sub.outcome = "ValidationError"
       /\ \A b \in SubIds :
             (sub[b].pc = "idle" /\ sub'[b].pc = "fetch")
             => /\ WellFormedHttp(sub'[b].url)
                /\ ~AlreadySubscribed(sub'[b].user, sub'[b].url)
                /\ ~ForeignCategory(sub'[b].user, sub'[b].category_id)
      ]_vars

\* C13 witness: user 1 has a feed with an entry; the initial fetch of user
\* 2's subscribe to the same URL, under user 2's own category, has failed,
\* and user 2 has no feed
C13_Witness ==
    /\ ev.sub.on /\ ev.sub.outcome = "ValidationError" /\ ev.sub.stage = "fetch"
    /\ ev.sub.user = 2 /\ ev.sub.category_id = 2
    /\ \E f \in DOMAIN feeds : feeds[f].user_id = 1
    /\ ~\E f \in DOMAIN feeds : feeds[f].user_id = 2
    /\ entries # {}
    /\ \A e \in entries : e.user_id = 1

\* the items of a document that have a link, and those among its first n
Linked(items, n) == {i \in 1..Min(Len(items), n) : Truthy(items[i].link)}
StoredFor(f, item) == RowsOf(f, item.link, EffectiveTitle(item))

\* C14: a successful subscribe creates at most 50 entries, one for each
\* different linked item among the first 50 items of the fetched document
\* and none for a later item, hence exactly 50 for a document of 200 linked
\* items with pairwise different urls; a refresh stores every linked item of
\* its document, however long.
C14_BackfillBound ==
    /\ (ev.sub.on /\ ev.sub.outcome = "ok")
       => LET f == ev.sub.feedId
              doc == ev.sub.items
              mine == {e \in entries : e.feed_id = f}
          IN /\ ev.sub.entriesCreated <= 50
             /\ ev.sub.entriesCreated = Cardinality(mine)
             /\ \A e \in mine : \E i \in Linked(doc, 50) :
                    e.url = doc[i].link /\ e.title = EffectiveTitle(doc[i])
             /\ \A i \in Linked(doc, 50) : StoredFor(f, doc[i]) # {}
             /\ (/\ Len(doc) >= 50
                 /\ Cardinality({doc[i].link : i \in Linked(doc, 50)}) = 50)
                => ev.sub.entriesCreated = 50
    /\ (FetchSucceeded /\ ev.fetch.existed)
       => \A i \in Linked(ev.fetch.items, Len(ev.fetch.items)) :
             StoredFor(ev.fetch.feedId, ev.fetch.items[i]) # {}

\* C14 witness: a subscribe whose document has 200 linked items with
\* pairwise different urls has created 50 entries
C14_Witness ==
    /\ ev.sub.on /\ ev.sub.outcome = "ok"
    /\ Len(ev.sub.items) = 200
    /\ Cardinality({ev.sub.items[i].link : i \in 1..200}) = 200
    /\ ev.sub.entriesCreated = 50
    /\ Cardinality(entries) = 50

\* the items of a document that can be stored: linked, with a string summary
Storable(items, n) ==
    {i \in 1..Min(Len(items), n) : Truthy(items[i].link) /\ items[i].summary # "<object>"}

\* C15: when the fetch of a refresh (or of a subscribe) has succeeded, the
\* refresh ends on the success path whatever happens to single items: an
\* item without link or one whose persistence throws gets no row, every
\* other item of the document (of its first 50 for subscribe) has its row,
\* the feed has error_count = 0 and last_fetched_at = now, and refreshFeed
\* returns success.
C15_ItemFailureIsSkipped ==
    /\ FetchSucceeded
       => /\ ev.ret.on /\ ev.ret.success /\ ev.ret.error = NullStr
          /\ ev.ret.newEntries = ev.fetch.added
          /\ ev.fetch.existed
             => /\ \A i \in Storable(ev.fetch.items, Len(ev.fetch.items)) :
                      Cardinality(StoredFor(ev.fetch.feedId, ev.fetch.items[i])) = 1
                /\ \A e \in entries : e.summary # "<object>" /\ Truthy(e.url)
                /\ FetchedFeed.error_count = 0
                /\ FetchedFeed.error_message = NullStr
                /\ FetchedFeed.last_fetched_at = now
    /\ (ev.sub.on /\ ev.sub.outcome = "ok")
       => /\ \A i \in Storable(ev.sub.items, 50) :
                Cardinality(StoredFor(ev.sub.feedId, ev.sub.items[i])) = 1
          /\ \A e \in entries : e.summary # "<object>" /\ Truthy(e.url)
          /\ feeds[ev.sub.feedId].error_count = 0
          /\ feeds[ev.sub.feedId].last_fetched_at = now

\* C15 witness: the refresh of a feed that had failed before met a document
\* whose second item threw and whose third item has no link; it stored the
\* first and the fourth item and ended with success
C15_Witness ==
    /\ FetchSucceeded /\ ev.fetch.existed
    /\ ev.fetch.prevErrorCount = 1
    /\ ev.fetch.items = <<ItemHello1, ItemBroken, ItemOther>>
    /\ ev.fetch.warned = 1
    /\ ev.fetch.newEntries = 2
    /\ ev.ret.on /\ ev.ret.success
    /\ FetchedFeed.error_count = 0

\* C16: the step in which refreshFeed handles the answer to a favicon probe
\* (found, not found or error) changes no feed row except, at most, the
\* favicon_url of the refreshed feed, and changes no entry: error_count,
\* error_message, last_fetched_at and next_fetch_at stay as the fetch left
\* them; and when the refresh returns after it, it returns success with the
\* newEntries its item loop had counted and no error.
C16_FaviconLeavesFetchResult ==
    [][ev'.favicon.on
       => /\ DOMAIN feeds' = DOMAIN feeds
          /\ \A g \in DOMAIN feeds :
                /\ feeds'[g] = [feeds[g] EXCEPT !.favicon_url = feeds'[g].favicon_url]
                /\ g # ev'.favicon.feedId => feeds'[g] = feeds[g]
          /\ entries' = entries
          /\ ev'.ret.on \/ rf'[ev'.favicon.caller].pc = "fav2"
          /\ ev'.ret.on
             => /\ ev'.ret.feedId = ev'.favicon.feedId
                /\ ev'.ret.success
                /\ ev'.ret.newEntries = rf[ev'.favicon.caller].newEntries
                /\ ev'.ret.error = NullStr
      ]_vars

\* C16 witness: both probes of a refresh that had stored one new entry have
\* failed; the refresh has returned success with newEntries = 1, and the
\* feed stands as the successful fetch left it, an hour before
C16_Witness ==
    /\ ev.favicon.on /\ ev.favicon.probe = 2 /\ ~ev.favicon.ok
    /\ ev.ret.on /\ ev.ret.success /\ ev.ret.newEntries = 1
    /\ ev.favicon.feedId \in DOMAIN feeds
    /\ feeds[ev.favicon.feedId].error_count = 0
    /\ feeds[ev.favicon.feedId].last_fetched_at = now - 60
    /\ feeds[ev.favicon.feedId].next_fetch_at = now

\* the position of a call in a shutdown run (0: not made)
CallAt(calls, name) ==
    IF \E i \in 1..Len(calls) : calls[i].call = name
    THEN CHOOSE i \in 1..Len(calls) : calls[i].call = name
    ELSE 0
TimerStarted == ev.timer.on \/ (ev.select.on /\ ev.select.origin = "tick")

\* C17: in every shutdown run stopScheduler is called, and has returned,
\* before closeDatabase is called, so that no task is scheduled any more when
\* the connection is closed; and whenever the connection is closed both tasks
\* are stopped and the step just taken was not a timer callback (neither a
\* sweep started by the tick nor a session cleanup).
C17_TimersStopBeforeClose ==
    /\ ev.shutdown.on =>
          /\ CallAt(ev.shutdown.calls, "stopScheduler") > 0
          /\ CallAt(ev.shutdown.calls, "stopScheduler")
                < CallAt(ev.shutdown.calls, "closeDatabase")
          /\ ev.shutdown.calls[CallAt(ev.shutdown.calls, "closeDatabase")].timers = {}
          /\ ev.shutdown.calls[CallAt(ev.shutdown.calls, "stopScheduler")].db
    /\ ~db => /\ ~feedRefreshTask
              /\ ~sessionCleanupTask
              /\ ~TimerStarted

\* a signal arrives while the sweep started by a tick is awaiting its fetch
C17_Witness ==
    /\ ev.shutdown.on
    /\ ~db
    /\ exited
    /\ sw[1].pc = "run"
    /\ sw[1].origin = "tick"
    /\ rf[1].pc = "fetch"

\* C18: a timer callback whose body throws (the session cleanup) or whose
\* sweep rejects (the feed refresh) keeps the error to itself: the error does
\* not escape, the process goes on, both tasks stay scheduled and the
\* connection stays open, so later runs of either task take place; a session
\* cleanup run, failed or not, leaves the feeds, the entries and the sweeps and
\* refreshes in flight as they are, and a rejected sweep leaves the sessions
\* as they are.
C18_TasksIndependent ==
    [][ev'.timer.on =>
          /\ ~ev'.timer.escaped
          /\ ~exited'
          /\ UNCHANGED <<feedRefreshTask, sessionCleanupTask, db>>
          /\ feedRefreshTask' /\ sessionCleanupTask'
          /\ (ev'.timer.task = "sessionCleanup" =>
                UNCHANGED <<feeds, entries, rf, sw, sub, started>>)
          /\ (ev'.timer.task = "feedRefresh" => UNCHANGED sessions)]_vars

\* a session cleanup throws while the sweep started by a tick is awaiting
\* its fetch
C18_Witness ==
    /\ ev.timer.on
    /\ ev.timer.task = "sessionCleanup"
    /\ ev.timer.threw
    /\ ~exited
    /\ feedRefreshTask
    /\ sw[1].pc = "run"
    /\ rf[1].pc = "fetch"

\* C19: every refreshFeed invocation eventually returns, every sweep
\* eventually finishes, and every fetchFullContent call eventually returns,
\* whatever the remote hosts do.
C19_OutboundRequestsTerminate ==
    /\ (rf[1].pc # "idle") ~> (rf[1].pc = "idle")
    /\ (sw[1].pc # "idle") ~> (sw[1].pc = "idle")
    /\ (fc.pc # "idle") ~> (fc.pc = "idle")

\* the minutes from..to in which the callback of feedRefreshTask is due
DueMinutes(from, to) ==
    {t \in from..to :
        t >= 0 /\ CronMatches(cronExpression(config.feedRefreshIntervalMinutes), t)}
\* the due minute before minute t (minute 0 is due under every expression)
PrevDue(t) == CHOOSE u \in DueMinutes(0, t - 1) : \A v \in DueMinutes(0, t - 1) : v <= u
TickRan == ev.select.on /\ ev.select.origin = "tick"

\* C20: when the cron callback of feedRefreshTask runs, the minute in which
\* it was due before lies feedRefreshIntervalMinutes minutes back; and with
\* the default interval of 60 it is due once in every 60 minutes.
C20_TickEveryInterval ==
    (TickRan /\ now > 0)
    => /\ now - PrevDue(now) = config.feedRefreshIntervalMinutes
       /\ config.feedRefreshIntervalMinutes = DefaultRefreshIntervalMinutes
          => Cardinality(DueMinutes(now - MinutesPerHour + 1, now)) = 1

InDoc(items, item) == \E i \in 1..Len(items) : items[i] = item

\* C21: ItemColonUrl and ItemColonTitle differ in url and in title, yet for
\* every feed they have the same fingerprint; so a feed never holds a row for
\* each of them, and a refresh whose document carries both stores one of them
\* only, the other being taken for an entry that already exists (nothing is
\* thrown).
C21_DelimiterCollision ==
    /\ ItemColonUrl.link # ItemColonTitle.link
    /\ ItemColonUrl.title # ItemColonTitle.title
    /\ \A f \in DOMAIN feeds :
          /\ generateHash(f, ItemColonUrl.link, ItemColonUrl.title)
                = generateHash(f, ItemColonTitle.link, ItemColonTitle.title)
          /\ Cardinality(StoredFor(f, ItemColonUrl) \cup StoredFor(f, ItemColonTitle)) <= 1
    /\ (/\ FetchSucceeded /\ ev.fetch.existed
        /\ InDoc(ev.fetch.items, ItemColonUrl)
        /\ InDoc(ev.fetch.items, ItemColonTitle))
       => /\ Cardinality(StoredFor(ev.fetch.feedId, ItemColonUrl)
                         \cup StoredFor(ev.fetch.feedId, ItemColonTitle)) = 1
          /\ ev.fetch.warned = 0

\* a refresh of a feed without entries gets both items, ItemColonUrl first:
\* it is stored, ItemColonTitle is not
C21_Witness ==
    /\ FetchSucceeded /\ ev.fetch.existed
    /\ ev.fetch.items = <<ItemColonUrl, ItemColonTitle>>
    /\ ev.fetch.newEntries = 1
    /\ StoredFor(ev.fetch.feedId, ItemColonUrl) # {}
    /\ StoredFor(ev.fetch.feedId, ItemColonTitle) = {}
    /\ Cardinality(entries) = 1

\* C22: a sweep started by POST /api/feeds/refresh-all selects feeds of the
\* requesting user only, and the feed whose fetch it awaits (the feed it is
\* about to record a result and store entries for) belongs to that user.
C22_RefreshAllOwnFeedsOnly ==
    \A s \in SweepIds :
        (sw[s].pc = "run" /\ sw[s].origin = "api")
        => /\ \A i \in 1..Len(sw[s].feeds) :
                 sw[s].feeds[i] \in DOMAIN feeds
                 => feeds[sw[s].feeds[i]].user_id = sw[s].user
           /\ rf[s].pc = "fetch" => rf[s].feed.user_id = sw[s].user

\* the favicon URL a step stored or left: of the feed a refresh probed for,
\* of the feed a subscribe created
ProbedFeedDone ==
    ev.favicon.on /\ ev.ret.on /\ ev.favicon.feedId \in DOMAIN feeds
SubscribedFeed == feeds[ev.sub.feedId]

\* C23 as stated: favicon_url is set only to a URL whose probe answered OK;
\* when the last probe of fetchFavicon did not answer OK, the feed the
\* refresh probed for, or the feed the subscribe creates, has no favicon_url.
C23_FaviconOnlyIfFound ==
    /\ (ProbedFeedDone /\ ~ev.favicon.ok)
       => ~Truthy(feeds[ev.favicon.feedId].favicon_url)
    /\ (ev.sub.on /\ ev.sub.outcome = "ok" /\ ev.subProbe.on /\ ~ev.subProbe.ok)
       => ~Truthy(SubscribedFeed.favicon_url)

\* C23, amended: when fetchFavicon has probed, favicon_url is set to the URL
\* of the last probe, which is the site's /favicon.ico only if that probe
\* answered OK and else the third-party lookup URL, whether its probe
\* answered OK or not; favicon_url stays unset when the subscribe did not
\* probe, the site link being no URL.
C23_FaviconOrFallback ==
    /\ ProbedFeedDone
       => /\ feeds[ev.favicon.feedId].favicon_url = ev.favicon.url
          /\ IF ev.favicon.ok /\ ev.favicon.probe = 1
             THEN ev.favicon.url \in {FaviconProbe1(u) : u \in HttpUrls}
             ELSE ev.favicon.url \in {FaviconProbe2(u) : u \in HttpUrls}
    /\ (ev.sub.on /\ ev.sub.outcome = "ok")
       => IF ev.subProbe.on
          THEN /\ SubscribedFeed.favicon_url = ev.subProbe.url
               /\ IF ev.subProbe.ok /\ ev.subProbe.probe = 1
                  THEN ev.subProbe.url \in {FaviconProbe1(u) : u \in HttpUrls}
                  ELSE ev.subProbe.url \in {FaviconProbe2(u) : u \in HttpUrls}
          ELSE SubscribedFeed.favicon_url = NullStr

\* neither probe answered OK, and the feed the refresh probed for has the
\* third-party lookup URL as its favicon_url
C23_Witness ==
    /\ ProbedFeedDone
    /\ ev.favicon.probe = 2
    /\ ~ev.favicon.ok
    /\ feeds[ev.favicon.feedId].favicon_url
          = "https://www.google.com/s2/favicons?domain=a.example&sz=64"

\* the cron tasks of a kind that are scheduled: the one the module variable
\* refers to and the ones left behind
ActiveTimers ==
    [feedRefresh |-> orphans.feedRefresh + (IF feedRefreshTask THEN 1 ELSE 0),
     sessionCleanup |-> orphans.sessionCleanup + (IF sessionCleanupTask THEN 1 ELSE 0)]

\* C24: at most one feed-refresh task and at most one session-cleanup task
\* is scheduled at any time; and when stopScheduler has returned (both module
\* variables are null) no task is scheduled and the step just taken was no
\* timer callback.
C24_TimersAreSingletons ==
    /\ ActiveTimers.feedRefresh <= 1
    /\ ActiveTimers.sessionCleanup <= 1
    /\ (~feedRefreshTask /\ ~sessionCleanupTask)
       => /\ ActiveTimers.feedRefresh = 0
          /\ ActiveTimers.sessionCleanup = 0
          /\ ~TimerStarted

\* C25: no due feed is starved.  With cron ticks that keep coming and feed
\* fetches that settle, every feed that is due (next_fetch_at elapsed) has a
\* fetch attempt of some sweep completed on it later on, also when more feeds
\* are due than one batch holds and feeds have been failing.
AttemptedBySweep(f) ==
    /\ ev.fetch.on
    /\ ev.fetch.feedId = f
    /\ ev.fetch.caller \in SweepIds
C25_NoDueFeedStarved ==
    \A f \in 1..MaxFeedRows :
        (f \in DOMAIN feeds /\ IsDue(feeds, f, now)) ~> AttemptedBySweep(f)

\* a sweep's attempt completes while at least a full batch of other feeds is
\* still due, one of them a feed that has failed before
C25_Witness ==
    /\ ev.fetch.on
    /\ ev.fetch.caller \in SweepIds
    /\ ~IsDue(feeds, ev.fetch.feedId, now)
    /\ Cardinality(DueSet(feeds, now)) >= config.feedRefreshBatchSize
    /\ \E g \in DueSet(feeds, now) : feeds[g].error_count > 0

\* C26: in every state the error_count of a feed is the number of failed
\* fetch attempts recorded on it since the last successful attempt was
\* recorded (or since the feed was created), also when a sweep's and a manual
\* refresh of the same feed are in flight together.
C26_ErrorCountCountsFailures ==
    \A f \in DOMAIN feeds : feeds[f].error_count = last[f].failed

\* a refresh that was overtaken by another refresh of the same feed records
\* a failure on a feed that has failed before
C26_Witness ==
    /\ ev.fetch.on
    /\ ~ev.fetch.ok
    /\ ev.fetch.feedId \in DOMAIN feeds
    /\ last[ev.fetch.feedId].late
    /\ last[ev.fetch.feedId].failed >= 2

\* C27: when two subscribes of one user for one feed URL interleave, one
\* feed row for that (user, URL) exists afterwards, and the subscribe that
\* finds the row in place when it comes to create its own ends with
\* ConflictError, with no feed row and no entry of its own.
LostSubscribeRace ==
    /\ ev.sub.on
    /\ ev.sub.stage = "create"
    /\ ev.sub.outcome # "ok"
C27_RacingSubscribeConflicts ==
    /\ \A f, g \in DOMAIN feeds :
          (feeds[f].user_id = feeds[g].user_id /\ feeds[f].feed_url = feeds[g].feed_url)
             => f = g
    /\ LostSubscribeRace
          => /\ ev.sub.outcome = "ConflictError"
             /\ ev.sub.feedId = 0
             /\ ev.sub.entriesCreated = 0
             /\ Cardinality({f \in DOMAIN feeds : /\ feeds[f].user_id = ev.sub.user
                                                  /\ feeds[f].feed_url = ev.sub.url}) = 1

\* C28: a feed deleted while a refresh of it awaits its fetch stays deleted,
\* and that refresh stores no entry and no enclosure for it: in every state
\* each entry references an existing feed and each enclosure an existing
\* entry, and no step brings back the row of a deleted feed.
RefreshedDeletedFeed ==
    /\ ev.fetch.on
    /\ ev.fetch.ok
    /\ ~ev.fetch.existed
C28_DeleteDuringRefresh ==
    /\ [](/\ \A e \in entries : e.feed_id \in DOMAIN feeds
          /\ \A x \in enclosures : \E e \in entries : e.id = x.entry_id
          /\ RefreshedDeletedFeed
                => /\ ev.fetch.added = 0
                   /\ ev.fetch.newEntries = 0
                   /\ ev.fetch.feedId \notin DOMAIN feeds)
    /\ [][\A f \in 1..MaxFeedRows :
            (f < nextFeedId /\ f \notin DOMAIN feeds) => f \notin DOMAIN feeds']_vars

\* the fetch of a deleted feed answered with an item that carries an
\* enclosure, and the insert of its entry was refused
C28_Witness ==
    /\ RefreshedDeletedFeed
    /\ \E i \in 1..Len(ev.fetch.items) : Truthy(ev.fetch.items[i].enclosure)
    /\ ev.fetch.warned > 0

\* C29: a refresh only adds entries.  No step of refreshFeed or of
\* refreshDueFeeds (the selection of a sweep, the handling of a fetch that
\* answered or failed, the favicon step) deletes a stored entry or changes
\* its starred flag, status, title or url: every stored row is there
\* unchanged afterwards.
RefreshStep ==
    \/ ev'.select.on
    \/ ev'.fetch.on
    \/ ev'.favicon.on
    \/ ev'.ret.on
    \/ ev'.sweep.on
C29_RefreshOnlyAddsEntries ==
    [][RefreshStep => \A e \in entries : e \in entries']_vars

\* a refresh delivered an item whose entry the reader has starred and marked
\* read or removed, and stored a new entry beside it
C29_Witness ==
    /\ ev.fetch.on
    /\ ev.fetch.ok
    /\ ev.fetch.added > 0
    /\ \E e \in entries :
          /\ e.feed_id = ev.fetch.feedId
          /\ e.starred
          /\ e.status # "unread"
          /\ \E i \in 1..Len(ev.fetch.items) :
                /\ ev.fetch.items[i].link = e.url
                /\ ev.fetch.items[i].title = e.title

\* the delay that updateFetchResult would set on feed f now after a success
SuccessDelay(f) ==
    updateFetchResult(feeds, f, TRUE,
        [etag |-> NullStr, lastModified |-> NullStr, errorMessage |-> NullStr,
         nextFetchMinutes |-> config.feedRefreshIntervalMinutes], now)[f].next_fetch_at - now
FailureDelay == FetchedFeed.next_fetch_at - now

\* C30 as stated: for every configured refresh interval and every
\* error_count the delay set after a failed attempt is at least the delay set
\* after a successful one.
C30_FailureNeverSooner ==
    (FetchFailed /\ ev.fetch.existed) => FailureDelay >= SuccessDelay(ev.fetch.feedId)

\* C30: for a configured refresh interval of at most 1440 minutes and every
\* error_count the delay set after a failed attempt is at least the delay set
\* after a successful one; for a longer interval the delay after a failure
\* is 1440 minutes, which is less than the delay after a success.
C30_FailureNeverSoonerUpToCap ==
    (FetchFailed /\ ev.fetch.existed)
    => IF config.feedRefreshIntervalMinutes <= MaxBackoffMinutes
       THEN FailureDelay >= SuccessDelay(ev.fetch.feedId)
       ELSE /\ FailureDelay = MaxBackoffMinutes
            /\ FailureDelay < SuccessDelay(ev.fetch.feedId)

\* a repeated failure under the interval of one day: the doubled delay is
\* cut to the cap, which is the delay of a success
C30_Witness ==
    /\ FetchFailed
    /\ ev.fetch.existed
    /\ ev.fetch.prevErrorCount >= 1
    /\ config.feedRefreshIntervalMinutes = MaxBackoffMinutes
    /\ FailureDelay = SuccessDelay(ev.fetch.feedId)

====
